---------------------------- MODULE Spec2Model ----------------------------
(***************************************************************************)
(* A model of the assembler: the instruction-set configuration, the        *)
(* regex lexers, the line parser with its label table, the resolver, and   *)
(* the semantic checker with its operand encoders.                         *)
(*                                                                         *)
(* Text is modelled as a sequence of one-character strings, so that the    *)
(* scanners and the number parser work on characters as the code does.     *)
(***************************************************************************)
EXTENDS Integers, Sequences, FiniteSets, TLC

VARIABLES
    pc,           \* the stage the run is in
    number,       \* checker: the i64 value of a Number token
    narrow,       \* checker: result of parse_num(number)
    wide,         \* checker: result of parse_wide_num(number)
    config_file,  \* the text of the configuration file
    config,       \* result of Config::read_from_file
    source,       \* the text of the assembly source
    tokens,       \* result of tokenize
    line_nr,      \* parse_all: the number of the token line parsed next
    curr_line,    \* parse_all: the offset of the next unit
    labels,       \* parse_all: the label table
    unresolved,   \* parse_all: the units emitted so far
    errors,       \* parse_all: the errors collected so far
    history,      \* per parsed line: the units emitted before it, its result
    output,       \* result of resolve_all_labels
    descriptions, \* checker: the instruction descriptions the automaton is of
    automaton,    \* checker: result of building config.automaton
    instruction,  \* checker: the Line::Instruction to check
    checked,      \* checker: result of check_instruction
    hash_order,   \* lib.rs: the order this run's HashMap of patterns iterates in
    previous,     \* lib.rs: the result of the run before this one
    span_self,    \* token.rs: the left operand of a span addition
    span_rhs,     \* token.rs: the right operand of a span addition
    span_sum,     \* token.rs: the result of span_self + span_rhs
    numeral,      \* parser.rs: the text given to parse_number
    numeral_result, \* parser.rs: result of parse_number(numeral)
    input_lines,  \* checker: the lines given to check_semantics
    checked_lines, \* check_semantics: the lines checked so far
    semantic,     \* result of check_semantics
    lex_i,        \* tokenize: the index of the line being scanned
    lex_line_ref, \* tokenize: line_ref, the rest of the line being scanned
    char_index_accumulator, \* tokenize: the column the rest starts at
    line_tokens,  \* tokenize: the tokens of the line so far
    lex_tokens,   \* tokenize: the token lines pushed so far
    lex_errors    \* tokenize: the errors pushed so far

numeric == <<number, narrow, wide>>

pipeline ==
    <<config_file, config, source, tokens, line_nr, curr_line, labels,
      unresolved, errors, history, output>>

checking == <<descriptions, automaton, instruction, checked>>

runs == <<hash_order, previous>>

spans == <<span_self, span_rhs, span_sum>>

literals == <<numeral, numeral_result>>

semantics == <<input_lines, checked_lines, semantic>>

scanning ==
    <<lex_i, lex_line_ref, char_index_accumulator, line_tokens, lex_tokens,
      lex_errors>>

\* The state of the later stages, which the actions above them leave alone.
others == <<spans, literals, semantics, scanning>>

vars ==
    <<pc, numeric, pipeline, checking, runs, spans, literals, semantics,
      scanning>>

None == [none |-> TRUE]

Ok(v) == [ok |-> TRUE, val |-> v]

Err(e) == [ok |-> FALSE, err |-> e]

Min(a, b) == IF a <= b THEN a ELSE b

Max(a, b) == IF a >= b THEN a ELSE b

\* The element of a set of one element.
The(S) == CHOOSE x \in S : TRUE

\* The least element of a set of indices, or 0 for the empty set.
FirstOf(hits) ==
    IF hits = {} THEN 0 ELSE CHOOSE k \in hits : \A j \in hits : k <= j

(***************************************************************************)
(* Text: sequences of one-character strings.                               *)
(***************************************************************************)
IsWhitespace(c) == c \in {" ", "\t", "\n"}

RECURSIVE TrimStart(_)
TrimStart(s) ==
    IF s # <<>> /\ IsWhitespace(Head(s)) THEN TrimStart(Tail(s)) ELSE s

RECURSIVE TrimEnd(_)
TrimEnd(s) ==
    IF s # <<>> /\ IsWhitespace(s[Len(s)])
    THEN TrimEnd(SubSeq(s, 1, Len(s) - 1))
    ELSE s

Trim(s) == TrimEnd(TrimStart(s))

StartsWith(s, p) == Len(s) >= Len(p) /\ SubSeq(s, 1, Len(p)) = p

DropN(s, n) == SubSeq(s, n + 1, Len(s))

\* Index of the first occurrence of character c in s, or 0.
RECURSIVE IndexFrom(_, _, _)
IndexFrom(s, c, i) ==
    IF i > Len(s) THEN 0
    ELSE IF s[i] = c THEN i
    ELSE IndexFrom(s, c, i + 1)

IndexOf(s, c) == IndexFrom(s, c, 1)

\* str::split(c): the pieces between the separators, at least one piece.
RECURSIVE Split(_, _)
Split(s, c) ==
    LET cut(i) ==
            IF i = 0 THEN <<s>>
            ELSE <<SubSeq(s, 1, i - 1)>> \o Split(DropN(s, i), c)
    IN  cut(IndexOf(s, c))

\* Length of the longest prefix of s made of non-whitespace characters.
RECURSIVE WordLen(_)
WordLen(s) ==
    IF s = <<>> \/ IsWhitespace(Head(s)) THEN 0 ELSE 1 + WordLen(Tail(s))

\* str::split_whitespace(): the non-empty words.
RECURSIVE SplitWhitespace(_)
SplitWhitespace(s) ==
    LET word(t, n) ==
            IF t = <<>> THEN <<>>
            ELSE <<SubSeq(t, 1, n)>> \o SplitWhitespace(DropN(t, n))
        words(t) == word(t, WordLen(t))
    IN  words(TrimStart(s))

\* str::lines(): the pieces between newlines, without a final empty piece.
Lines(s) ==
    LET without_last_empty(parts) ==
            IF parts[Len(parts)] = <<>>
            THEN SubSeq(parts, 1, Len(parts) - 1)
            ELSE parts
    IN  without_last_empty(Split(s, "\n"))

\* Concatenation of a sequence of texts.
RECURSIVE Concat(_)
Concat(ss) == IF ss = <<>> THEN <<>> ELSE Head(ss) \o Concat(Tail(ss))

\* The texts joined by a separator text.
RECURSIVE Join(_, _)
Join(ss, sep) ==
    IF ss = <<>> THEN <<>>
    ELSE IF Len(ss) = 1 THEN Head(ss)
    ELSE Head(ss) \o sep \o Join(Tail(ss), sep)

(***************************************************************************)
(* token.rs: spans.                                                        *)
(***************************************************************************)
\* Span::new(line, start..end)
Span(line, start, end) == [line |-> line, start |-> start, end |-> end]

\* impl Add for Span: the enclosing range, on the line of the right operand.
SpanAdd(a, b) == Span(b.line, Min(a.start, b.start), Max(a.end, b.end))

(***************************************************************************)
(* Character classes of the token patterns.                                *)
(***************************************************************************)
UpperLetters ==
    {"A", "B", "C", "D", "E", "F", "G", "H", "I", "J", "K", "L", "M",
     "N", "O", "P", "Q", "R", "S", "T", "U", "V", "W", "X", "Y", "Z"}

LowerLetters ==
    {"a", "b", "c", "d", "e", "f", "g", "h", "i", "j", "k", "l", "m",
     "n", "o", "p", "q", "r", "s", "t", "u", "v", "w", "x", "y", "z"}

DecDigits == {"0", "1", "2", "3", "4", "5", "6", "7", "8", "9"}

HexDigits ==
    DecDigits \cup {"a", "b", "c", "d", "e", "f", "A", "B", "C", "D", "E", "F"}

BinDigits == {"0", "1"}

OctDigits == {"0", "1", "2", "3", "4", "5", "6", "7"}

\* [a-zA-Z_]
IdentStart == UpperLetters \cup LowerLetters \cup {"_"}

\* [a-zA-Z0-9_]
IdentChar == IdentStart \cup DecDigits

LowerOf ==
    [c \in UpperLetters |->
        CASE c = "A" -> "a" [] c = "B" -> "b" [] c = "C" -> "c" [] c = "D" -> "d"
          [] c = "E" -> "e" [] c = "F" -> "f" [] c = "G" -> "g" [] c = "H" -> "h"
          [] c = "I" -> "i" [] c = "J" -> "j" [] c = "K" -> "k" [] c = "L" -> "l"
          [] c = "M" -> "m" [] c = "N" -> "n" [] c = "O" -> "o" [] c = "P" -> "p"
          [] c = "Q" -> "q" [] c = "R" -> "r" [] c = "S" -> "s" [] c = "T" -> "t"
          [] c = "U" -> "u" [] c = "V" -> "v" [] c = "W" -> "w" [] c = "X" -> "x"
          [] c = "Y" -> "y" [] c = "Z" -> "z"]

\* Case folding of one character, as the (?i) flag compares.
Fold(c) == IF c \in UpperLetters THEN LowerOf[c] ELSE c

FoldText(s) == [i \in 1..Len(s) |-> Fold(s[i])]

\* Length of the longest prefix of s whose characters are all in class.
RECURSIVE RunLen(_, _)
RunLen(s, class) ==
    IF s = <<>> \/ Head(s) \notin class THEN 0
    ELSE 1 + RunLen(Tail(s), class)

\* (\s|\n|$) at offset n of s: the number of characters it takes, or -1.
Boundary(s, n) ==
    IF n = Len(s) THEN 0
    ELSE IF IsWhitespace(s[n + 1]) THEN 1
    ELSE -1

NoMatch == [matched |-> FALSE]

\* A match: capture group 1 and the end offset of the whole match.
Match(content, word_len) ==
    [matched |-> TRUE, content |-> content, word_len |-> word_len]

(***************************************************************************)
(* Integer widths.                                                         *)
(***************************************************************************)
U8Modulus == 256

U16Modulus == 65536

\* `x as u8`: truncation of an integer to its low 8 bits.
AsU8(x) == x % U8Modulus

\* `x as u16`: truncation of an integer to its low 16 bits.
AsU16(x) == x % U16Modulus

\* The binary digits of a natural number, most significant first.
RECURSIVE Bits(_)
Bits(n) ==
    IF n < 2 THEN <<IF n = 1 THEN "1" ELSE "0">>
    ELSE Bits(n \div 2) \o <<IF n % 2 = 1 THEN "1" ELSE "0">>

RECURSIVE Zeros(_)
Zeros(k) == IF k <= 0 THEN <<>> ELSE <<"0">> \o Zeros(k - 1)

BitWidth == 8

\* format!("{:08b}", n) of an unsigned value: at least 8 digits, never cut.
Format08b(n) == Zeros(BitWidth - Len(Bits(n))) \o Bits(n)

\* format!("{:08b}", n) of an i8: the digits of its two's complement.
Format08bI8(n) == Format08b(AsU8(n))

\* The value of a string of binary digits.
RECURSIVE BitsValue(_)
BitsValue(b) ==
    IF b = <<>> THEN 0
    ELSE 2 * BitsValue(SubSeq(b, 1, Len(b) - 1))
            + (IF b[Len(b)] = "1" THEN 1 ELSE 0)

(***************************************************************************)
(* parser.rs: parse_number, the literal of a Number token as an i8.        *)
(***************************************************************************)
I8Min == -128

I8Max == 127

DigitChars ==
    <<"0", "1", "2", "3", "4", "5", "6", "7", "8", "9",
      "a", "b", "c", "d", "e", "f">>

UpperDigitChars == <<"A", "B", "C", "D", "E", "F">>

\* char::to_digit(radix): the digit's value, or -1.
ToDigit(c, radix) ==
    LET lower == {i \in 1..Len(DigitChars) : DigitChars[i] = c}
        upper == {i \in 1..Len(UpperDigitChars) : UpperDigitChars[i] = c}
        v == IF lower # {} THEN (CHOOSE i \in lower : TRUE) - 1
             ELSE IF upper # {} THEN (CHOOSE i \in upper : TRUE) + 9
             ELSE -1
    IN  IF v >= 0 /\ v < radix THEN v ELSE -1

RECURSIVE DigitsValue(_, _)
DigitsValue(ds, radix) ==
    IF ds = <<>> THEN 0
    ELSE DigitsValue(SubSeq(ds, 1, Len(ds) - 1), radix) * radix
            + ToDigit(ds[Len(ds)], radix)

NotANumber == [kind |-> "NotANumber"]

\* i8::from_str_radix: an optional sign, then one or more digits of the
\* radix; the value must fit an i8.
from_str_radix(src, radix) ==
    LET signed == src # <<>> /\ Head(src) \in {"+", "-"}
        neg == src # <<>> /\ Head(src) = "-"
        digits == IF signed THEN Tail(src) ELSE src
        valid == \A i \in 1..Len(digits) : ToDigit(digits[i], radix) >= 0
        fit(v) == IF v < I8Min \/ v > I8Max THEN Err(NotANumber) ELSE Ok(v)
        signed_value(v) == fit(IF neg THEN 0 - v ELSE v)
    IN  IF digits = <<>> \/ ~valid THEN Err(NotANumber)
        ELSE signed_value(DigitsValue(digits, radix))

\* The negation `-num` of an i8 overflows for -128.
Overflow == [ok |-> FALSE, err |-> [kind |-> "overflow"]]

parse_number(str) ==
    LET is_negative == str # <<>> /\ Head(str) = "-"
        rest == IF is_negative THEN Tail(str) ELSE str
        radix == IF StartsWith(rest, <<"0", "x">>) THEN 16
                 ELSE IF StartsWith(rest, <<"0", "b">>) THEN 2
                 ELSE IF StartsWith(rest, <<"0", "o">>) THEN 8
                 ELSE 10
        negate(result) ==
            IF result.ok /\ is_negative
            THEN IF result.val = I8Min THEN Overflow ELSE Ok(0 - result.val)
            ELSE result
    IN  negate(from_str_radix(IF radix = 10 THEN rest ELSE DropN(rest, 2),
                              radix))

(***************************************************************************)
(* lexer.rs: the token patterns.  Each pattern is anchored at the start of *)
(* the remaining line; a match gives capture group 1 and the end of the    *)
(* whole match.                                                            *)
(***************************************************************************)
MnemonicWords ==
    << <<"N", "O", "P">>, <<"M", "O", "V">>, <<"P", "U", "S", "H">>,
       <<"P", "O", "P">>, <<"J", "M", "P">>, <<"A", "D", "D">>,
       <<"S", "U", "B">>, <<"O", "R">>, <<"A", "N", "D">>,
       <<"N", "E", "G">>, <<"I", "N", "V">>, <<"S", "H", "R">>,
       <<"S", "H", "L">>, <<"C", "M", "P">>, <<"H", "A", "L", "T">> >>

RegisterWords == << <<"A">>, <<"B">>, <<"F">> >>

ByteWord == <<"b", "y", "t", "e">>

\* An alternation of literal words: the index of the first alternative that
\* is a prefix of s and is followed by `after`, or 0.
FirstWord(s, words, fold, anchored) ==
    LET hit(k) ==
            /\ Len(s) >= Len(words[k])
            /\ LET pre == SubSeq(s, 1, Len(words[k]))
               IN  IF fold THEN FoldText(pre) = FoldText(words[k])
                   ELSE pre = words[k]
            /\ anchored => Boundary(s, Len(words[k])) >= 0
    IN  FirstOf({k \in 1..Len(words) : hit(k)})

\* A match of an alternation of words, with or without the (\s|\n|$) tail.
MatchWords(s, words, fold, anchored) ==
    LET word(n) ==
            Match(SubSeq(s, 1, n), n + (IF anchored THEN Boundary(s, n) ELSE 0))
        alternative(k) == IF k = 0 THEN NoMatch ELSE word(Len(words[k]))
    IN  alternative(FirstWord(s, words, fold, anchored))

\* One alternative of a number pattern: an optional '-', a radix prefix and
\* a greedy run of digits; the length matched, or 0.
NumberAlt(s, minus, prefix, class) ==
    LET m == IF minus /\ s # <<>> /\ Head(s) = "-" THEN 1 ELSE 0
        digits(rest) ==
            IF StartsWith(rest, prefix)
            THEN RunLen(DropN(rest, Len(prefix)), class)
            ELSE 0
        whole(run) == IF run >= 1 THEN m + Len(prefix) + run ELSE 0
    IN  whole(digits(DropN(s, m)))

\* (-?0x[0-9A-Fa-f]+|0b[01]+|-?0o[0-7]+|-?[0-9]+), or the same without the
\* signs: the lengths the alternatives match, in order.
NumberAlts(s, signed) ==
    << NumberAlt(s, signed, <<"0", "x">>, HexDigits),
       NumberAlt(s, FALSE, <<"0", "b">>, BinDigits),
       NumberAlt(s, signed, <<"0", "o">>, OctDigits),
       NumberAlt(s, signed, <<>>, DecDigits) >>

\* The first alternative whose match can be followed by `tail`, or 0.
FirstAlt(alts, tail(_)) ==
    LET alternative(k) == IF k = 0 THEN 0 ELSE alts[k]
    IN  alternative(FirstOf({k \in 1..Len(alts) :
                                alts[k] > 0 /\ tail(alts[k])}))

\* ^(-?0x[0-9A-Fa-f]+|0b[01]+|-?0o[0-7]+|-?[0-9]+)
MatchNumber(s) ==
    LET anywhere(n) == TRUE
        literal(n) == IF n = 0 THEN NoMatch ELSE Match(SubSeq(s, 1, n), n)
    IN  literal(FirstAlt(NumberAlts(s, TRUE), anywhere))

\* ^\[(0x[0-9A-Fa-f]+|0b[01]+|0o[0-7]+|[0-9]+)\](\s|\n|$)
MatchMemAddress(s) ==
    LET inner == DropN(s, 1)
        closed(n) ==
            /\ Len(inner) > n
            /\ inner[n + 1] = "]"
            /\ Boundary(s, n + 2) >= 0
        address(n) ==
            IF n = 0 THEN NoMatch
            ELSE Match(SubSeq(inner, 1, n), n + 2 + Boundary(s, n + 2))
    IN  address(IF s # <<>> /\ Head(s) = "["
                THEN FirstAlt(NumberAlts(inner, FALSE), closed)
                ELSE 0)

\* [a-zA-Z_][a-zA-Z0-9_]* at the start of s: its length, or 0.
IdentLen(s) ==
    IF s # <<>> /\ Head(s) \in IdentStart
    THEN 1 + RunLen(Tail(s), IdentChar)
    ELSE 0

\* ^([a-zA-Z_][a-zA-Z0-9_]*):
MatchLabel(s) ==
    LET label(n) ==
            IF n > 0 /\ Len(s) > n /\ s[n + 1] = ":"
            THEN Match(SubSeq(s, 1, n), n + 1)
            ELSE NoMatch
    IN  label(IdentLen(s))

\* ^#([a-zA-Z_][a-zA-Z0-9_]*), with or without the (\s|\n|$) tail.
MatchLabelRef(s, anchored) ==
    LET reference(n) ==
            IF n > 0 /\ (anchored => Boundary(s, n + 1) >= 0)
            THEN Match(SubSeq(s, 2, n + 1),
                       n + 1 + (IF anchored THEN Boundary(s, n + 1) ELSE 0))
            ELSE NoMatch
    IN  reference(IF s # <<>> /\ Head(s) = "#" THEN IdentLen(Tail(s)) ELSE 0)

\* ^\[#([a-zA-Z_][a-zA-Z0-9_]*)\](\s|\n|$)
MatchLabelAddressRef(s) ==
    LET reference(n) ==
            IF /\ n > 0
               /\ Len(s) > n + 2
               /\ s[n + 3] = "]"
               /\ Boundary(s, n + 3) >= 0
            THEN Match(SubSeq(s, 3, n + 2), n + 3 + Boundary(s, n + 3))
            ELSE NoMatch
    IN  reference(IF StartsWith(s, <<"[", "#">>) THEN IdentLen(DropN(s, 2))
                  ELSE 0)

\* ^;(.*)$
MatchComment(s) ==
    IF s # <<>> /\ Head(s) = ";" /\ IndexOf(s, "\n") = 0
    THEN Match(Tail(s), Len(s))
    ELSE NoMatch

\* lexer.rs create_patterns: the table, in the order it is tried.
create_patterns ==
    <<"Mnemonic", "Register", "Number", "MemAddress", "Label", "LabelRef",
      "LabelAddressRef", "Comment", "Byte">>

\* Regex::captures of the pattern of a token type on the remaining line.
captures(token_type, s) ==
    CASE token_type = "Mnemonic" -> MatchWords(s, MnemonicWords, TRUE, TRUE)
      [] token_type = "Register" -> MatchWords(s, RegisterWords, FALSE, TRUE)
      [] token_type = "Number" -> MatchNumber(s)
      [] token_type = "MemAddress" -> MatchMemAddress(s)
      [] token_type = "Label" -> MatchLabel(s)
      [] token_type = "LabelRef" -> MatchLabelRef(s, TRUE)
      [] token_type = "LabelAddressRef" -> MatchLabelAddressRef(s)
      [] token_type = "Comment" -> MatchComment(s)
      [] token_type = "Byte" -> MatchWords(s, <<ByteWord>>, FALSE, TRUE)

Token(token_type, content, span) ==
    [token_type |-> token_type, content |-> content, span |-> span]

\* An error value with the span it was found at.
with_span(kind, span) == [kind |-> kind, span |-> span]

(***************************************************************************)
(* lexer.rs: tokenize.                                                     *)
(***************************************************************************)
\* The index of the first pattern of the table that matches, or 0.
FirstPattern(patterns, s) ==
    FirstOf({k \in 1..Len(patterns) : captures(patterns[k], s).matched})

\* An unmatched word skipped up to its separator, which is left in place.
scan_step_keeps_separator(patterns, i, line_ref, acc) ==
    LET sp == IndexOf(line_ref, " ")
        tok == IF sp = 0 THEN line_ref ELSE SubSeq(line_ref, 1, sp - 1)
    IN  [line_ref |-> IF sp = 0 THEN <<>> ELSE DropN(line_ref, sp - 1),
         acc |-> acc + Len(tok) + 1,
         tokens |-> <<>>,
         errors |-> <<with_span("UnknownToken",
                                Span(i, acc, acc + Len(tok)))>>]

\* One iteration of the `while !line_ref.is_empty()` loop on line i: the
\* rest of the line and its column, and the token or the error pushed.
scan_step(patterns, i, line_ref, acc) ==
    LET matched(token_type, word) ==
            LET word_len == word.word_len
                tok == Token(token_type, word.content,
                             Span(i, acc, acc + word_len))
                next_line_ref == DropN(line_ref, word_len)
                trimmed == TrimStart(next_line_ref)
                whitespace_len == Len(next_line_ref) - Len(trimmed)
            IN  [line_ref |-> trimmed,
                 acc |-> acc + word_len + whitespace_len,
                 tokens |-> <<tok>>,
                 errors |-> <<>>]
        unmatched(sp) ==
            LET tok == IF sp = 0 THEN line_ref
                       ELSE SubSeq(line_ref, 1, sp - 1)
                rest == IF sp = 0 THEN <<>> ELSE DropN(line_ref, sp)
                err == with_span("UnknownToken",
                                 Span(i, acc, acc + Len(tok)))
            IN  [line_ref |-> rest,
                 acc |-> acc + Len(tok) + 1,
                 tokens |-> <<>>,
                 errors |-> <<err>>]
        pattern(k) ==
            IF k > 0
            THEN The({matched(patterns[k], word) :
                         word \in {captures(patterns[k], line_ref)}})
            ELSE unmatched(IndexOf(line_ref, " "))
    IN  The({pattern(k) : k \in {FirstPattern(patterns, line_ref)}})

\* The `while !line_ref.is_empty()` loop on line i: the tokens and errors.
RECURSIVE scan_line(_, _, _, _, _, _)
scan_line(patterns, i, line_ref, acc, toks, errs) ==
    IF line_ref = <<>> THEN [tokens |-> toks, errors |-> errs]
    ELSE
        LET next(step) ==
                scan_line(patterns, i, step.line_ref, step.acc,
                          toks \o step.tokens, errs \o step.errors)
        IN  next(scan_step(patterns, i, line_ref, acc))

\* One source line: its tokens without the comments, and its errors.
tokenize_line(patterns, i, line) ==
    LET without_comments(r) ==
            [tokens |-> SelectSeq(r.tokens,
                                  LAMBDA t : t.token_type # "Comment"),
             errors |-> r.errors]
        scan(start) ==
            without_comments(scan_line(patterns, i, TrimEnd(start),
                                       Len(line) - Len(start), <<>>, <<>>))
    IN  scan(TrimStart(line))

RECURSIVE tokenize_lines(_, _, _, _, _)
tokenize_lines(patterns, ls, i, tks, ers) ==
    IF i > Len(ls)
    THEN IF ers = <<>> THEN Ok(tks) ELSE Err(ers)
    ELSE
        LET push(r) ==
                tokenize_lines(patterns, ls, i + 1,
                               IF r.tokens # <<>> THEN Append(tks, r.tokens)
                               ELSE tks,
                               ers \o r.errors)
        IN  push(tokenize_line(patterns, i - 1, ls[i]))

\* tokenize(patterns, input)
tokenize(patterns, input) ==
    tokenize_lines(patterns, Lines(input), 1, <<>>, <<>>)

(***************************************************************************)
(* config.rs: the instruction set, read from the text of the config file.  *)
(***************************************************************************)
\* impl FromStr for ArgDef
ArgDef_from_str(s) ==
    CASE s = <<"M", "E", "M">> -> Ok("Mem")
      [] s = <<"C", "O", "N", "S", "T">> -> Ok("Const")
      [] s = <<"A">> -> Ok("A")
      [] s = <<"B">> -> Ok("B")
      [] s = <<"F">> -> Ok("F")
      [] OTHER -> Err([kind |-> "ParseArg", arg |-> s])

SplitErr == [kind |-> "Split"]

\* collect::<Result<Vec<_>, _>>(): the values, or the first error.
collect(results) ==
    LET first(bad) ==
            IF bad = 0 THEN Ok([i \in 1..Len(results) |-> results[i].val])
            ELSE results[bad]
    IN  first(FirstOf({i \in 1..Len(results) : ~results[i].ok}))

\* impl FromStr for InstructionDef: "instr, full-name, binary"
InstructionDef_from_str(s) ==
    LET def(split, instr_split, args_def) ==
            IF ~args_def.ok THEN args_def
            ELSE Ok([mnem |-> instr_split[1],
                     args_def |-> args_def.val,
                     mnem_full |-> Trim(split[2]),
                     binary |-> Trim(split[3])])
        instr(split, instr_split) ==
            IF instr_split = <<>> THEN Err(SplitErr)
            ELSE def(split, instr_split,
                     collect([i \in 1..(Len(instr_split) - 1) |->
                                 ArgDef_from_str(Trim(instr_split[i + 1]))]))
        fields(split) ==
            IF Len(split) # 3 THEN Err(SplitErr)
            ELSE instr(split, SplitWhitespace(split[1]))
    IN  fields(Split(s, ","))

\* The number of the line counted from 0.
complete_zero_based(kind, line_num) ==
    [kind |-> kind, line_num |-> line_num - 1]

\* ConfigParseKind::complete(line_num)
complete(kind, line_num) == [kind |-> kind, line_num |-> line_num]

\* Config::read_from_file on the content of the file: every line is parsed,
\* and the first line that fails gives the error, with its 1-based number.
read_from_file(content) ==
    LET numbered(d, i) == IF d.ok THEN d ELSE Err(complete(d.err, i))
        defs(ls) ==
            [i \in 1..Len(ls) |-> numbered(InstructionDef_from_str(ls[i]), i)]
    IN  collect(defs(Lines(content)))

(***************************************************************************)
(* parser.rs: arguments, matching against the instruction definitions.     *)
(***************************************************************************)
Num(n) == [is_num |-> TRUE, num |-> n]

LabelRefValue(name) == [is_num |-> FALSE, label |-> name]

\* ArgKind::with_span
Arg(kind, payload, span) == [kind |-> kind, payload |-> payload, span |-> span]

\* impl TryFrom<Token> for Arg
Arg_try_from(token) ==
    LET number_arg(kind, parsed) ==
            IF parsed.ok THEN Ok(Arg(kind, Num(parsed.val), token.span))
            ELSE Err(with_span(parsed.err.kind, token.span))
    IN  CASE token.token_type = "Register" ->
                IF token.content \in {<<"A">>, <<"B">>, <<"F">>}
                THEN Ok(Arg("Register", token.content, token.span))
                ELSE Err(with_span("unreachable", token.span))
          [] token.token_type = "Number" ->
                number_arg("ImmediateValue", parse_number(token.content))
          [] token.token_type = "LabelRef" ->
                Ok(Arg("ImmediateValue", LabelRefValue(token.content),
                       token.span))
          [] token.token_type = "MemAddress" ->
                number_arg("MemAddress", parse_number(token.content))
          [] token.token_type = "LabelAddressRef" ->
                Ok(Arg("MemAddress", LabelRefValue(token.content), token.span))
          [] OTHER -> Err(with_span("NotAnArg", token.span))

\* Arg::matches_def
Arg_matches_def(arg, def) ==
    CASE arg.kind = "Register" ->
            \/ arg.payload = <<"A">> /\ def = "A"
            \/ arg.payload = <<"B">> /\ def = "B"
            \/ arg.payload = <<"F">> /\ def = "F"
      [] arg.kind = "ImmediateValue" -> def = "Const"
      [] arg.kind = "MemAddress" -> def = "Mem"

\* A matching that zips the arguments with the definition's and forgets to
\* compare the two lengths.
matches_def_without_arity(instr, def) ==
    /\ instr.mnem = def.mnem
    /\ \A i \in 1..Min(Len(instr.args), Len(def.args_def)) :
            Arg_matches_def(instr.args[i], def.args_def[i])

\* Instruction::matches_def
matches_def(instr, def) ==
    /\ instr.mnem = def.mnem
    /\ Len(instr.args) = Len(def.args_def)
    /\ \A i \in 1..Len(instr.args) :
            Arg_matches_def(instr.args[i], def.args_def[i])

\* Instruction::find_match: the index of the first definition of the config
\* that matches, or 0.
find_match(instr, cfg) ==
    FirstOf({k \in 1..Len(cfg) : matches_def(instr, cfg[k])})

\* Unresolved::Value and Unresolved::LabelRef
Value(bin) == [unit |-> "Value", bin |-> bin]

LabelRef(label, span) == [unit |-> "LabelRef", label |-> label, span |-> span]

\* Arg::to_unresolved_binary: no unit for a register, else one unit.
to_unresolved_binary(arg) ==
    IF arg.kind = "Register" THEN <<>>
    ELSE IF arg.payload.is_num THEN <<Value(Format08bI8(arg.payload.num))>>
    ELSE <<LabelRef(arg.payload.label, arg.span)>>

\* ResultSplit::result_split: all the values, or all the errors.
result_split(results) ==
    LET err == SelectSeq(results, LAMBDA r : ~r.ok)
    IN  IF err = <<>> THEN Ok([i \in 1..Len(results) |-> results[i].val])
        ELSE Err([i \in 1..Len(err) |-> err[i].err])

(***************************************************************************)
(* parser.rs: parse_line.                                                  *)
(***************************************************************************)
\* An insert that keeps the value a key already has.
Insert_keep_first(map, k, v) ==
    [x \in DOMAIN map \cup {k} |-> IF x \in DOMAIN map THEN map[x] ELSE v]

\* HashMap::insert
Insert(map, k, v) ==
    [x \in DOMAIN map \cup {k} |-> IF x = k THEN v ELSE map[x]]

EmptyMap == [x \in {} |-> 0]

RECURSIVE FoldSpans(_, _)
FoldSpans(tks, a) ==
    IF tks = <<>> THEN a
    ELSE FoldSpans(Tail(tks), SpanAdd(a, Head(tks).span))

\* A skip_while that consumes nothing.
LeadingLabels_none(tks) == 0

\* The number of leading Label tokens, which skip_while consumes.
RECURSIVE LeadingLabels(_)
LeadingLabels(tks) ==
    IF tks = <<>> \/ Head(tks).token_type # "Label" THEN 0
    ELSE 1 + LeadingLabels(Tail(tks))

\* A label table that binds every label to the start of the output.
RECURSIVE InsertLabels_at_zero(_, _, _)
InsertLabels_at_zero(lbls, tks, cur) ==
    IF tks = <<>> THEN lbls
    ELSE InsertLabels_at_zero(Insert(lbls, Head(tks).content, 0),
                              Tail(tks), cur)

\* skip_while: every leading Label token is bound to the current offset.
RECURSIVE InsertLabels(_, _, _)
InsertLabels(lbls, tks, cur) ==
    IF tks = <<>> THEN lbls
    ELSE InsertLabels(Insert(lbls, Head(tks).content, cur),
                      Tail(tks), cur)

\* The units of a byte line: every token after the keyword is parsed as a
\* number, and the first one that is none ends the line with its error.
byte_units(toks) ==
    LET units(nums, first) ==
            IF first = 0
            THEN Ok([i \in 1..Len(toks) |-> Value(Format08bI8(nums[i].val))])
            ELSE Err(<<with_span(nums[first].err.kind, toks[first].span)>>)
        numbers(nums) ==
            units(nums, FirstOf({i \in 1..Len(toks) : ~nums[i].ok}))
    IN  numbers([i \in 1..Len(toks) |-> parse_number(toks[i].content)])

\* The units of an instruction line.
instruction_units(mnem, toks, line_span, cfg) ==
    LET encode(instr, def) ==
            IF def = 0 THEN Err(<<with_span("NoMapping", line_span)>>)
            ELSE Ok(<<Value(cfg[def].binary)>>
                        \o Concat([i \in 1..Len(instr.args) |->
                                      to_unresolved_binary(instr.args[i])]))
        lookup(instr) == encode(instr, find_match(instr, cfg))
        with_args(args) ==
            IF ~args.ok THEN args
            ELSE lookup([mnem |-> mnem, args |-> args.val,
                         span |-> line_span])
    IN  with_args(result_split([i \in 1..Len(toks) |->
                                   Arg_try_from(toks[i])]))

\* parse_line: the label table and the offset after the line, and the units
\* of the line or its errors.
parse_line(lbls, cur, tks, cfg) ==
    LET line_span == FoldSpans(tks, Span(0, 0, 0))
        line(first_token, iter) ==
            IF first_token.token_type = "Mnemonic"
            THEN instruction_units(first_token.content, iter, line_span, cfg)
            ELSE IF first_token.token_type = "Byte"
            THEN byte_units(iter)
            ELSE Err(<<with_span("WrongFirst", first_token.span)>>)
        after(new_labels, ret) ==
            [labels |-> new_labels,
             curr_line |-> IF ret.ok THEN cur + Len(ret.val) ELSE cur,
             ret |-> ret]
        statement(n, iter) ==
            after(InsertLabels(lbls, SubSeq(tks, 1, n), cur),
                  IF iter = <<>>
                  THEN Err(<<with_span("EmptyLine", line_span)>>)
                  ELSE line(Head(iter), Tail(iter)))
        skip_labels(n) == statement(n, DropN(tks, n))
    IN  skip_labels(LeadingLabels(tks))

(***************************************************************************)
(* resolver.rs                                                             *)
(***************************************************************************)
\* resolve_label
resolve_label(lbls, unr) ==
    IF unr.unit = "LabelRef"
    THEN IF unr.label \in DOMAIN lbls
         THEN Ok(Format08b(lbls[unr.label]))
         ELSE Err(with_span("UnknownLabel", unr.span))
    ELSE Ok(unr.bin)

\* The units resolved from the last to the first.
resolve_all_labels_reversed(lbls, unr) ==
    result_split([i \in 1..Len(unr) |->
                     resolve_label(lbls, unr[Len(unr) + 1 - i])])

\* resolve_all_labels
resolve_all_labels(lbls, unr) ==
    result_split([i \in 1..Len(unr) |->
                     resolve_label(lbls, unr[i])])

(***************************************************************************)
(* checker.rs: range checks and encodings of numeric operands.             *)
(***************************************************************************)
NarrowMin == -128

NarrowMax == 255

WideMin == -32768

WideMax == 65535

NumberOutOfRange(n) == [kind |-> "NumberOutOfRange", value |-> n]

parse_num_wrong_upper(n) ==
    IF ~(n \in NarrowMin..(NarrowMax + 1))
    THEN Err(NumberOutOfRange(n))
    ELSE Ok(AsU8(n))

parse_num(n) ==
    IF ~(n \in NarrowMin..NarrowMax)
    THEN Err(NumberOutOfRange(n))
    ELSE Ok(AsU8(n))

parse_wide_num(n) ==
    IF ~(n \in WideMin..WideMax)
    THEN Err(NumberOutOfRange(n))
    ELSE Ok(AsU16(n))

\* The low byte, then the high byte.
to_le_bytes(w) == <<w % U8Modulus, w \div U8Modulus>>

\* u16::to_be_bytes: the high byte, then the low byte.
to_be_bytes(w) == <<w \div U8Modulus, w % U8Modulus>>

(***************************************************************************)
(* The operand encoders applied to numbers around the range boundaries.    *)
(***************************************************************************)
Margin == 12

Near(c) == (c - Margin)..(c + Margin)

Numbers ==
    Near(NarrowMin) \cup Near(0) \cup Near(NarrowMax)
        \cup Near(WideMin) \cup Near(WideMax)

NumericIdle ==
    /\ number = 0
    /\ narrow = None
    /\ wide = None

PipelineIdle ==
    /\ config_file = <<>>
    /\ config = None
    /\ source = <<>>
    /\ tokens = None
    /\ line_nr = 0
    /\ curr_line = 0
    /\ labels = EmptyMap
    /\ unresolved = <<>>
    /\ errors = <<>>
    /\ history = <<>>
    /\ output = None

CheckingIdle ==
    /\ descriptions = <<>>
    /\ automaton = None
    /\ instruction = None
    /\ checked = None

RunsIdle ==
    /\ hash_order = <<>>
    /\ previous = None

SpansIdle ==
    /\ span_self = None
    /\ span_rhs = None
    /\ span_sum = None

LiteralsIdle ==
    /\ numeral = <<>>
    /\ numeral_result = None

SemanticsIdle ==
    /\ input_lines = <<>>
    /\ checked_lines = <<>>
    /\ semantic = None

ScanningIdle ==
    /\ lex_i = 0
    /\ lex_line_ref = <<>>
    /\ char_index_accumulator = 0
    /\ line_tokens = <<>>
    /\ lex_tokens = <<>>
    /\ lex_errors = <<>>

InitEncode ==
    /\ pc = "encode"
    /\ number \in Numbers
    /\ narrow = None
    /\ wide = None
    /\ PipelineIdle
    /\ CheckingIdle
    /\ RunsIdle
    /\ SpansIdle
    /\ LiteralsIdle
    /\ SemanticsIdle
    /\ ScanningIdle

ParseNum ==
    /\ pc = "encode"
    /\ narrow = None
    /\ narrow' = parse_num(number)
    /\ UNCHANGED <<others, pc, number, wide, pipeline, checking, runs>>

ParseWideNum ==
    /\ pc = "encode"
    /\ wide = None
    /\ wide' = parse_wide_num(number)
    /\ UNCHANGED <<others, pc, number, narrow, pipeline, checking, runs>>

NextEncode == ParseNum \/ ParseWideNum

SpecEncode == InitEncode /\ [][NextEncode]_vars

(***************************************************************************)
(* The pipeline: read the configuration, tokenize the source, parse_all    *)
(* line by line, resolve_all_labels.                                       *)
(***************************************************************************)
ReadConfig ==
    /\ pc = "read_config"
    /\ config' = read_from_file(config_file)
    /\ pc' = IF config'.ok THEN "tokenize" ELSE "failed"
    /\ UNCHANGED <<others, numeric, checking, runs, config_file, source, tokens,
                   line_nr, curr_line,
                   labels, unresolved, errors, history, output>>

Tokenize ==
    /\ pc = "tokenize"
    /\ tokens' = tokenize(create_patterns, source)
    /\ pc' = IF tokens'.ok THEN "parse" ELSE "failed"
    /\ line_nr' = 1
    /\ UNCHANGED <<others, numeric, checking, runs, config_file, config, source,
                   curr_line, labels,
                   unresolved, errors, history, output>>

\* A loop that keeps the errors of the first failing line only.
ParseLine_first_error_only ==
    /\ pc = "parse"
    /\ line_nr <= Len(tokens.val)
    /\ LET collect_line(r) ==
               /\ labels' = r.labels
               /\ curr_line' = r.curr_line
               /\ unresolved' = IF r.ret.ok THEN unresolved \o r.ret.val
                                ELSE unresolved
               /\ errors' = IF r.ret.ok \/ errors # <<>> THEN errors
                            ELSE r.ret.err
               /\ history' = Append(history,
                                    [start |-> Len(unresolved), ret |-> r.ret])
       IN  collect_line(parse_line(labels, curr_line, tokens.val[line_nr],
                                   config.val))
    /\ line_nr' = line_nr + 1
    /\ UNCHANGED <<others, pc, numeric, checking, runs, config_file, config, source,
                   tokens, output>>

\* One iteration of the loop of parse_all.
ParseLine ==
    /\ pc = "parse"
    /\ line_nr <= Len(tokens.val)
    /\ LET collect_line(r) ==
               /\ labels' = r.labels
               /\ curr_line' = r.curr_line
               /\ unresolved' = IF r.ret.ok THEN unresolved \o r.ret.val
                                ELSE unresolved
               /\ errors' = IF r.ret.ok THEN errors ELSE errors \o r.ret.err
               /\ history' = Append(history,
                                    [start |-> Len(unresolved), ret |-> r.ret])
       IN  collect_line(parse_line(labels, curr_line, tokens.val[line_nr],
                                   config.val))
    /\ line_nr' = line_nr + 1
    /\ UNCHANGED <<others, pc, numeric, checking, runs, config_file, config, source,
                   tokens, output>>

\* The end of parse_all: the units and the labels, or the errors.
ParseAllReturn ==
    /\ pc = "parse"
    /\ line_nr > Len(tokens.val)
    /\ pc' = IF errors = <<>> THEN "resolve" ELSE "failed"
    /\ UNCHANGED <<others, numeric, pipeline, checking, runs>>

ResolveAllLabels ==
    /\ pc = "resolve"
    /\ output' = resolve_all_labels(labels, unresolved)
    /\ pc' = "done"
    /\ UNCHANGED <<others, numeric, checking, runs, config_file, config, source,
                   tokens, line_nr,
                   curr_line, labels, unresolved, errors, history>>

Next ==
    \/ ReadConfig
    \/ Tokenize
    \/ ParseLine
    \/ ParseAllReturn
    \/ ResolveAllLabels

(***************************************************************************)
(* The inputs of the pipeline.                                             *)
(***************************************************************************)
NewLine == <<"\n">>

\* Lines of a configuration file.
CfgNop ==
    <<"N", "O", "P", ",", "N", "O", "P", ",", "0", "0", "0", "0",
      "0", "0", "0", "0">>

CfgJmp ==
    <<"J", "M", "P", " ", "C", "O", "N", "S", "T", ",", " ", "J",
      "M", "P", "I", "M", "M", " ", ",", "0", "0", "0", "0", "0",
      "1", "1", "0">>

CfgOr ==
    <<"O", "R", ",", "O", "R", ",", "0", "0", "0", "1", "0", "0",
      "0", "0">>

CfgOrA ==
    <<"O", "R", " ", "A", ",", "O", "R", "A", ",", "0", "0", "0",
      "1", "0", "0", "0", "1">>

\* The path of CfgOrA once more, with another opcode.
CfgOrAAgain ==
    <<"O", "R", " ", "A", ",", "O", "R", "A", "2", ",", "0", "0",
      "0", "1", "0", "0", "1", "1">>

CfgMov ==
    <<"M", "O", "V", " ", "M", "E", "M", " ", "B", ",", "M", "O",
      "V", "A", "B", "S", "B", ",", "0", "0", "0", "0", "1", "0",
      "0", "0">>

\* A line naming an operand kind that does not exist.
CfgUnknownKind ==
    <<"O", "R", " ", "X", ",", "O", "R", "X", ",", "0", "0", "0",
      "1", "0", "1", "0", "0">>

\* Lines of an assembly source.
SrcNop ==
    <<"N", "O", "P">>

SrcJmpS ==
    <<"J", "M", "P", " ", "#", "s">>

SrcLabelledNop ==
    <<"s", ":", " ", "N", "O", "P">>

SrcLabelledJmpT ==
    <<"t", ":", " ", "J", "M", "P", " ", "#", "t">>

SrcOr ==
    <<"O", "R">>

SrcOrA ==
    <<"O", "R", " ", "A">>

SrcOrB ==
    <<"O", "R", " ", "B">>

SrcMov ==
    <<"M", "O", "V", " ", "[", "5", "]", " ", "B">>

SrcByte ==
    <<"b", "y", "t", "e", " ", "1", " ", "-", "1">>

\* Two operands, neither of which fits an i8.
SrcJmpTwoBad ==
    <<"J", "M", "P", " ", "3", "0", "0", " ", "4", "0", "0">>

\* An operand that fits a byte and no i8.
SrcJmp200 ==
    <<"J", "M", "P", " ", "2", "0", "0">>

\* A line that starts with a register.
SrcWrongFirst ==
    <<"A", " ", "N", "O", "P">>

\* A line that holds only a label.
SrcOnlyLabel ==
    <<"s", ":">>

\* All sequences over a set, of the lengths lo..hi.
SeqsOf(S, lo, hi) == UNION {[1..n -> S] : n \in lo..hi}

FileOf(ls) == Join(ls, NewLine)

MaxLines == 3

MaxDefs == 3

ConfigFiles ==
    { FileOf(<<CfgNop, CfgJmp, CfgOr, CfgOrA, CfgMov>>),
      FileOf(<<CfgOrA, CfgOr, CfgJmp, CfgNop>>) }

SourceLines ==
    { SrcNop, SrcJmpS, SrcLabelledNop, SrcLabelledJmpT, SrcOrA, SrcByte,
      SrcJmpTwoBad, SrcWrongFirst, SrcOnlyLabel }

PipelineStart ==
    /\ pc = "read_config"
    /\ NumericIdle
    /\ CheckingIdle
    /\ RunsIdle
    /\ SpansIdle
    /\ LiteralsIdle
    /\ SemanticsIdle
    /\ ScanningIdle
    /\ config = None
    /\ tokens = None
    /\ line_nr = 0
    /\ curr_line = 0
    /\ labels = EmptyMap
    /\ unresolved = <<>>
    /\ errors = <<>>
    /\ history = <<>>
    /\ output = None

\* Whole programs under a well-formed configuration.
Init ==
    /\ PipelineStart
    /\ config_file \in ConfigFiles
    /\ source \in {FileOf(ls) : ls \in SeqsOf(SourceLines, 0, MaxLines)}

Spec == Init /\ [][Next]_vars

ConfigLines ==
    {CfgNop, CfgJmp, CfgOr, CfgOrA, CfgOrAAgain, CfgMov, CfgUnknownKind}

InstructionLines ==
    {SrcNop, SrcOr, SrcOrA, SrcOrB, SrcMov, SrcJmpS, SrcJmp200}

\* One instruction under every configuration file of up to MaxDefs lines.
InitConfig ==
    /\ PipelineStart
    /\ config_file \in {FileOf(ls) : ls \in SeqsOf(ConfigLines, 1, MaxDefs)}
    /\ source \in InstructionLines

SpecConfig == InitConfig /\ [][Next]_vars

(***************************************************************************)
(* The instruction-set automaton: a trie of Branch nodes keyed by          *)
(* NodeType, with a Leaf under the MachineCode key at the end of a path.   *)
(***************************************************************************)
\* NodeType::Mnemonic(name), NodeType::Operand(kind), NodeType::MachineCode
MnemonicKey(name) == <<"Mnemonic", name>>

OperandKey(kind) == <<"Operand", kind>>

MachineCode == <<"MachineCode", "">>

\* ConfigNode::Branch(children) and ConfigNode::Leaf(code)
Branch(children) == [branch |-> TRUE, children |-> children]

Leaf(code) == [branch |-> FALSE, code |-> code]

DuplicatePath == [kind |-> "DuplicatePath"]

\* One description added to a node: the chain of its keys is walked or
\* created, and the Leaf is attached under MachineCode unless one is there.
RECURSIVE insert_path(_, _, _)
insert_path(children, path, code) ==
    IF path = <<>>
    THEN IF MachineCode \in DOMAIN children THEN Err(DuplicatePath)
         ELSE Ok(Insert(children, MachineCode, Leaf(code)))
    ELSE
        LET attach(key, below) ==
                IF below.ok
                THEN Ok(Insert(children, key, Branch(below.val)))
                ELSE below
            descend(key) ==
                attach(key,
                       insert_path(IF key \in DOMAIN children
                                   THEN children[key].children
                                   ELSE EmptyMap,
                                   Tail(path), code))
        IN  descend(Head(path))

\* The keys of a description: its mnemonic, then its operand kinds in order.
path_of(description) ==
    <<MnemonicKey(description.mnemonic)>>
        \o [i \in 1..Len(description.operands) |->
               OperandKey(description.operands[i])]

\* build(descriptions): the automaton, or the error of the first description
\* whose path is already there.
RECURSIVE build_from(_, _, _)
build_from(children, descs, i) ==
    IF i > Len(descs) THEN Ok(children)
    ELSE
        LET continue(added) ==
                IF added.ok THEN build_from(added.val, descs, i + 1)
                ELSE added
        IN  continue(insert_path(children, path_of(descs[i]),
                                 descs[i].opcode))

build(descs) == build_from(EmptyMap, descs, 1)

(***************************************************************************)
(* checker.rs: check_instruction.                                          *)
(***************************************************************************)
\* A token of token.rs: its type with the value the type carries.
TypedToken(token_type, value, content, span) ==
    [token_type |-> token_type, value |-> value, content |-> content,
     span |-> span]

\* A panic: unwrap() of None, or unreachable!().
Panic(what) == [ok |-> FALSE, panic |-> what]

IsPanic(result) == "panic" \in DOMAIN result

UnknownMnemonic(content) == [kind |-> "UnknownMnemonic", content |-> content]

InvalidOperand(content) == [kind |-> "InvalidOperand", content |-> content]

\* WriterErr::UnknownLabel(String): the name of the label and nothing else.
UnknownLabel(label) == [kind |-> "UnknownLabel", label |-> label]

RECURSIVE Pow2(_)
Pow2(n) == IF n <= 0 THEN 1 ELSE 2 * Pow2(n - 1)

RECURSIVE SumOf(_)
SumOf(S) ==
    IF S = {} THEN 0
    ELSE LET x == CHOOSE y \in S : TRUE IN x + SumOf(S \ {x})

\* binary_str_to_byte: bit i is set for every '1' that stands i places from
\* the end (the shift of the u8 takes i modulo 8 in a release build).
binary_str_to_byte(binary_str) ==
    SumOf({Pow2(b) : b \in {(Len(binary_str) - k) % BitWidth :
                                k \in {j \in 1..Len(binary_str) :
                                          binary_str[j] = "1"}}})

parse_labelref(lbls, label) ==
    IF label \in DOMAIN lbls THEN Ok(AsU8(lbls[label]))
    ELSE Err(UnknownLabel(label))

parse_value(lbls, value) ==
    CASE value.token_type = "Number" -> parse_num(value.value)
      [] value.token_type = "LabelRef" -> parse_labelref(lbls, value.value)
      [] OTHER -> Panic("unreachable")

parse_wide_labelref(lbls, label) ==
    IF label \in DOMAIN lbls THEN Ok(AsU16(lbls[label]))
    ELSE Err(UnknownLabel(label))

parse_wide_value(lbls, value) ==
    CASE value.token_type = "Number" -> parse_wide_num(value.value)
      [] value.token_type = "LabelRef" ->
            parse_wide_labelref(lbls, value.value)
      [] OTHER -> Panic("unreachable")

\* The bytes one operand pushes on operand_binary_codes.
operand_codes_of(lbls, operand) ==
    LET one(parsed) == IF parsed.ok THEN Ok(<<parsed.val>>) ELSE parsed
        two(parsed) ==
            IF parsed.ok THEN Ok(to_be_bytes(parsed.val)) ELSE parsed
    IN  CASE operand.kind \in {"Mem8", "Const"} ->
                one(parse_value(lbls, operand.token))
          [] operand.kind = "Mem16" ->
                two(parse_wide_value(lbls, operand.token))
          [] OTHER -> Ok(<<>>)

CheckedInstruction(mnemonic_code, operand_codes) ==
    [mnemonic_code |-> mnemonic_code, operand_codes |-> operand_codes]

\* After the loop: the Leaf under the MachineCode key of the node reached.
machine_code(current_node, operand_binary_codes) ==
    IF ~current_node.branch THEN Panic("unreachable")
    ELSE IF MachineCode \notin DOMAIN current_node.children
    THEN Panic("unreachable")
    ELSE IF current_node.children[MachineCode].branch
    THEN Panic("unreachable")
    ELSE Ok(CheckedInstruction(
                binary_str_to_byte(current_node.children[MachineCode].code),
                operand_binary_codes))

\* The loop over the operands: each one is encoded, then the node is left
\* by the edge of its kind.
RECURSIVE check_operands(_, _, _, _, _)
check_operands(lbls, current_node, operands, i, operand_binary_codes) ==
    IF i > Len(operands)
    THEN machine_code(current_node, operand_binary_codes)
    ELSE
        LET transition(codes) ==
                IF ~current_node.branch THEN Panic("unreachable")
                ELSE IF OperandKey(operands[i].kind)
                            \in DOMAIN current_node.children
                THEN check_operands(
                         lbls,
                         current_node.children[OperandKey(operands[i].kind)],
                         operands, i + 1, operand_binary_codes \o codes)
                ELSE Err(InvalidOperand(operands[i].token.content))
            encoded(parsed) ==
                IF parsed.ok THEN transition(parsed.val) ELSE parsed
        IN  encoded(operand_codes_of(lbls, operands[i]))

check_instruction(cfg_automaton, lbls, mnemonic, operands) ==
    IF mnemonic.token_type # "Mnemonic"
    THEN Err(UnknownMnemonic(mnemonic.content))
    ELSE IF MnemonicKey(mnemonic.value) \notin DOMAIN cfg_automaton
    THEN Panic("unwrap")
    ELSE check_operands(lbls, cfg_automaton[MnemonicKey(mnemonic.value)],
                        operands, 1, <<>>)

(***************************************************************************)
(* One instruction checked against the automaton of a list of              *)
(* descriptions.                                                           *)
(***************************************************************************)
Description(mnemonic, operands, opcode) ==
    [mnemonic |-> mnemonic, operands |-> operands, opcode |-> opcode]

DescNop == Description("Nop", <<>>, Format08b(0))

DescOr == Description("Or", <<>>, Format08b(16))

DescOrA == Description("Or", <<"A">>, Format08b(17))

\* The path of DescOrA once more, with another opcode.
DescOrAAgain == Description("Or", <<"A">>, Format08b(19))

DescJmp == Description("Jmpimm", <<"Const">>, Format08b(6))

DescMov == Description("Mov", <<"Mem16", "B">>, Format08b(8))

Descriptions == {DescNop, DescOr, DescOrA, DescOrAAgain, DescJmp, DescMov}

\* The decimal literal of an integer.
RECURSIVE Decimal(_)
Decimal(n) ==
    IF n < 0 THEN <<"-">> \o Decimal(0 - n)
    ELSE IF n < 10 THEN <<DigitChars[n + 1]>>
    ELSE Decimal(n \div 10) \o <<DigitChars[(n % 10) + 1]>>

Operand(kind, token) == [kind |-> kind, token |-> token]

\* Line::Instruction { mnemonic, operands }
Instruction(mnemonic, operands) ==
    [mnemonic |-> mnemonic, operands |-> operands]

MnemonicToken(name, content) ==
    TypedToken("Mnemonic", name, content, Span(0, 0, Len(content)))

RegisterToken(name, start) ==
    TypedToken("Register", name, <<name>>, Span(0, start, start + 1))

NumberToken(n, start) ==
    TypedToken("Number", n, Decimal(n), Span(0, start, start + Len(Decimal(n))))

LabelRefToken(name, start) ==
    TypedToken("LabelRef", name, <<"#">> \o name,
               Span(0, start, start + 1 + Len(name)))

JmpContent == <<"J", "M", "P", "I", "M", "M">>

MovContent == <<"M", "O", "V">>

HaltContent == <<"H", "A", "L", "T">>

LabelS == <<"s">>

LabelNowhere == <<"n", "o", "w", "h", "e", "r", "e">>

\* The 8-bit values at and around the ends of the range.
NarrowSamples == {NarrowMin - 1, NarrowMin, -1, 0, 200, NarrowMax, NarrowMax + 1}

\* The 16-bit values at and around the ends of the range.
WideSamples == {WideMin - 1, WideMin, 0, 258, WideMax, WideMax + 1}

CheckInstructions ==
    { Instruction(MnemonicToken("Nop", SrcNop), <<>>),
      Instruction(MnemonicToken("Or", SrcOr), <<>>),
      Instruction(MnemonicToken("Or", SrcOr),
                  <<Operand("A", RegisterToken("A", 3))>>),
      Instruction(MnemonicToken("Or", SrcOr),
                  <<Operand("B", RegisterToken("B", 3))>>),
      Instruction(MnemonicToken("Halt", HaltContent), <<>>),
      Instruction(RegisterToken("A", 0), <<>>) }
        \cup { Instruction(MnemonicToken("Jmpimm", JmpContent),
                           <<Operand("Const", NumberToken(n, 7))>>) :
                 n \in NarrowSamples }
        \cup { Instruction(MnemonicToken("Or", SrcOr),
                           <<Operand("Const", NumberToken(n, 3))>>) :
                 n \in {0, NarrowMax + 1} }
        \cup { Instruction(MnemonicToken("Jmpimm", JmpContent),
                           <<Operand("Const", LabelRefToken(l, 7))>>) :
                 l \in {LabelS, LabelNowhere} }
        \cup { Instruction(MnemonicToken("Mov", MovContent),
                           <<Operand("Mem16", NumberToken(n, 4)),
                             Operand("B", RegisterToken("B", 11))>>) :
                 n \in WideSamples }
        \cup { Instruction(MnemonicToken("Mov", MovContent),
                           <<Operand("Mem16", LabelRefToken(LabelS, 4)),
                             Operand("B", RegisterToken("B", 9))>>) }

\* Label tables: none, a label in the first 256 units, a label beyond them.
CheckLabels == {EmptyMap, LabelS :> 2, LabelS :> 300}

InitCheck ==
    /\ pc = "build"
    /\ NumericIdle
    /\ RunsIdle
    /\ SpansIdle
    /\ LiteralsIdle
    /\ SemanticsIdle
    /\ ScanningIdle
    /\ config_file = <<>>
    /\ config = None
    /\ source = <<>>
    /\ tokens = None
    /\ line_nr = 0
    /\ curr_line = 0
    /\ labels \in CheckLabels
    /\ unresolved = <<>>
    /\ errors = <<>>
    /\ history = <<>>
    /\ output = None
    /\ descriptions \in SeqsOf(Descriptions, 1, MaxDefs)
    /\ automaton = None
    /\ instruction \in CheckInstructions
    /\ checked = None

Build ==
    /\ pc = "build"
    /\ automaton' = build(descriptions)
    /\ pc' = IF automaton'.ok THEN "check" ELSE "failed"
    /\ UNCHANGED <<others, numeric, pipeline, runs, descriptions, instruction, checked>>

CheckInstruction ==
    /\ pc = "check"
    /\ checked' = check_instruction(automaton.val, labels,
                                    instruction.mnemonic, instruction.operands)
    /\ pc' = "checked"
    /\ UNCHANGED <<others, numeric, pipeline, runs, descriptions, automaton,
                   instruction>>

NextCheck == Build \/ CheckInstruction

SpecCheck == InitCheck /\ [][NextCheck]_vars

\* Both encoders of an instruction: the lookup in the list of definitions of
\* parser.rs and the walk through the automaton of checker.rs.
InitEncoders == InitConfig \/ InitCheck

NextEncoders == Next \/ NextCheck

SpecEncoders == InitEncoders /\ [][NextEncoders]_vars

(***************************************************************************)
(* lib.rs: the tokenizer over a HashMap of patterns, run twice.            *)
(***************************************************************************)
LibTokenTypes ==
    <<"Mnemonic", "Register", "Number", "Label", "LabelRef", "Comment">>

LibRegisterWords == << <<"A">>, <<"B">> >>

\* Regex::find of the pattern of a token type: the text of the whole match.
lib_find(token_type, s) ==
    LET whole(n) == n = Len(s)
        prefix(n) == IF n = 0 THEN NoMatch ELSE Match(SubSeq(s, 1, n), n)
        label(n) ==
            IF n > 0 /\ Len(s) > n /\ s[n + 1] = ":" THEN prefix(n + 1)
            ELSE NoMatch
        reference(n) == IF n > 0 THEN prefix(n + 1) ELSE NoMatch
    IN  CASE token_type = "Mnemonic" ->
                MatchWords(s, MnemonicWords, TRUE, FALSE)
          [] token_type = "Register" ->
                MatchWords(s, LibRegisterWords, FALSE, FALSE)
          [] token_type = "Number" ->
                prefix(FirstAlt(NumberAlts(s, FALSE), whole))
          [] token_type = "Label" -> label(IdentLen(s))
          [] token_type = "LabelRef" ->
                reference(IF s # <<>> /\ Head(s) = "#"
                          THEN IdentLen(Tail(s)) ELSE 0)
          [] token_type = "Comment" ->
                IF s # <<>> /\ Head(s) = ";" THEN prefix(Len(s)) ELSE NoMatch

\* lib.rs create_patterns: the table as the HashMap's iterator yields it.
lib_create_patterns(order) ==
    [i \in 1..Len(LibTokenTypes) |-> LibTokenTypes[order[i]]]

LibToken(token_type, content, nr) ==
    [token_type |-> token_type, content |-> content, line_nr |-> nr]

\* std::process::exit(code)
Exit(code) == [ok |-> FALSE, exit |-> code]

\* The `while !line_ref.is_empty()` loop of lib.rs on line i.
RECURSIVE lib_scan_line(_, _, _, _)
lib_scan_line(table, i, line_ref, toks) ==
    IF line_ref = <<>> THEN Ok(toks)
    ELSE
        LET matched(token_type, word) ==
                lib_scan_line(table, i,
                              TrimStart(DropN(line_ref, word.word_len)),
                              Append(toks,
                                     LibToken(token_type, word.content, i)))
            pattern(k) ==
                IF k > 0 THEN matched(table[k], lib_find(table[k], line_ref))
                ELSE Exit(1)
        IN  pattern(FirstOf({k \in 1..Len(table) :
                                lib_find(table[k], line_ref).matched}))

RECURSIVE lib_tokenize_lines(_, _, _, _)
lib_tokenize_lines(table, ls, i, toks) ==
    IF i > Len(ls) THEN Ok(toks)
    ELSE
        LET push(r) ==
                IF r.ok THEN lib_tokenize_lines(table, ls, i + 1, r.val)
                ELSE r
        IN  push(lib_scan_line(table, i - 1, Trim(ls[i]), toks))

\* lib.rs tokenize(patterns, input)
lib_tokenize(table, input) ==
    lib_tokenize_lines(table, Lines(input), 1, <<>>)

SrcAdd ==
    <<"A", "D", "D">>

SrcAddA ==
    <<"A", "D", "D", " ", "A">>

SrcLabelAnd ==
    <<"A", "N", "D", ":", " ", "N", "O", "P">>

SrcNumber ==
    <<"1", "2">>

SrcComment ==
    <<"N", "O", "P", " ", ";", "A">>

LibSources ==
    {SrcNop, SrcAdd, SrcAddA, SrcLabelAnd, SrcNumber, SrcComment,
     SrcLabelledJmpT, FileOf(<<SrcNop, SrcOrB>>)}

InitLib ==
    /\ pc = "lib_create"
    /\ NumericIdle
    /\ CheckingIdle
    /\ RunsIdle
    /\ SpansIdle
    /\ LiteralsIdle
    /\ SemanticsIdle
    /\ ScanningIdle
    /\ config_file = <<>>
    /\ config = None
    /\ source \in LibSources
    /\ tokens = None
    /\ line_nr = 0
    /\ curr_line = 0
    /\ labels = EmptyMap
    /\ unresolved = <<>>
    /\ errors = <<>>
    /\ history = <<>>
    /\ output = None

\* create_patterns(): the HashMap gets the iteration order of this run.
CreatePatterns ==
    /\ pc = "lib_create"
    /\ \E order \in Permutations(1..Len(LibTokenTypes)) :
            hash_order' = lib_create_patterns(order)
    /\ pc' = "lib_tokenize"
    /\ UNCHANGED <<others, numeric, pipeline, checking, previous>>

LibTokenize ==
    /\ pc = "lib_tokenize"
    /\ tokens' = lib_tokenize(hash_order, source)
    /\ pc' = "lib_done"
    /\ UNCHANGED <<others, numeric, checking, runs, config_file, config, source,
                   line_nr, curr_line, labels, unresolved, errors, history,
                   output>>

\* The program is started once more on the same source.
RunAgain ==
    /\ pc = "lib_done"
    /\ previous = None
    /\ previous' = tokens
    /\ tokens' = None
    /\ hash_order' = <<>>
    /\ pc' = "lib_create"
    /\ UNCHANGED <<others, numeric, checking, config_file, config, source, line_nr,
                   curr_line, labels, unresolved, errors, history, output>>

NextLib == CreatePatterns \/ LibTokenize \/ RunAgain

SpecLib == InitLib /\ [][NextLib]_vars

(***************************************************************************)
(* The resolver on what parse_all leaves after n one-unit lines followed   *)
(* by `s: JMP #s` or by `s: JMP #nowhere`.                                 *)
(***************************************************************************)
MaxUnits == 260

InitResolve ==
    /\ pc = "resolve"
    /\ NumericIdle
    /\ CheckingIdle
    /\ RunsIdle
    /\ SpansIdle
    /\ LiteralsIdle
    /\ SemanticsIdle
    /\ ScanningIdle
    /\ config_file = <<>>
    /\ config = None
    /\ source = <<>>
    /\ tokens = None
    /\ errors = <<>>
    /\ history = <<>>
    /\ output = None
    /\ \E n \in 0..MaxUnits, target \in {LabelS, LabelNowhere} :
            /\ line_nr = n + 2
            /\ curr_line = n + 2
            /\ labels = LabelS :> n
            /\ unresolved =
                    [i \in 1..n |-> Value(Format08b(0))]
                        \o <<Value(Format08b(6)),
                             LabelRef(target, Span(n, 7, 9 + Len(target)))>>

SpecResolve == InitResolve /\ [][ResolveAllLabels]_vars

(***************************************************************************)
(* token.rs: the addition of two spans.                                    *)
(***************************************************************************)
MaxSpanLine == 2

MaxColumn == 3

\* The spans of the first lines and columns, empty ranges included.
Spans ==
    {sp \in [line : 0..MaxSpanLine, start : 0..MaxColumn,
             end : 0..MaxColumn] : sp.start <= sp.end}

InitSpan ==
    /\ pc = "span"
    /\ NumericIdle
    /\ LiteralsIdle
    /\ SemanticsIdle
    /\ ScanningIdle
    /\ PipelineIdle
    /\ CheckingIdle
    /\ RunsIdle
    /\ span_self \in Spans
    /\ span_rhs \in Spans
    /\ span_sum = None

\* self + rhs
AddSpans ==
    /\ pc = "span"
    /\ span_sum' = SpanAdd(span_self, span_rhs)
    /\ pc' = "span_done"
    /\ UNCHANGED <<literals, semantics, scanning, numeric, pipeline, checking,
                   runs, span_self, span_rhs>>

SpecSpan == InitSpan /\ [][AddSpans]_vars

(***************************************************************************)
(* The lexer of lexer.rs in front of the parser, on lines with unknown     *)
(* words, comments and label declarations in several places.               *)
(***************************************************************************)
\* An unknown word, then a mnemonic.
LexUnknown ==
    <<"X", " ", "N", "O", "P">>

\* The same with two spaces between the words.
LexUnknownWide ==
    <<"X", " ", " ", "N", "O", "P">>

\* The same with a tab between the words.
LexUnknownTab ==
    <<"X", "\t", "N", "O", "P">>

\* Two unknown words around a mnemonic.
LexTwoUnknown ==
    <<"X", " ", "N", "O", "P", " ", "Y">>

\* A comment at the start of the line.
LexCommentOnly ==
    <<";", "c">>

\* A comment after whitespace.
LexCommentIndented ==
    <<" ", " ", ";", "c">>

\* A comment after a token and a space.
LexCommentAfterSpace ==
    <<"N", "O", "P", " ", ";", "c">>

\* A comment directly after a mnemonic.
LexCommentAfterToken ==
    <<"N", "O", "P", ";", "c">>

\* A comment directly after a number.
LexCommentAfterNumber ==
    <<"J", "M", "P", " ", "1", ";", "c">>

\* A label declaration after the mnemonic.
LexLateLabel ==
    <<"N", "O", "P", " ", "s", ":">>

\* Two label declarations before the mnemonic.
LexSecondLabel ==
    <<"s", ":", " ", "t", ":", " ", "N", "O", "P">>

\* A label declaration after a space.
LexIndentedLabel ==
    <<" ", "s", ":", " ", "N", "O", "P">>

\* A label declaration, then a register where the statement begins.
LexLabelledWrongFirst ==
    <<"s", ":", " ", "A">>

\* Mnemonics in lower and in mixed case.
LexLowerNop ==
    <<"n", "o", "p">>

LexMixedJmp ==
    <<"J", "m", "p", " ", "#", "s">>

LexLines ==
    { SrcNop, SrcJmpS, SrcWrongFirst, SrcOnlyLabel, LexLabelledWrongFirst,
      LexLowerNop, LexMixedJmp,
      LexUnknown, LexUnknownWide, LexUnknownTab,
      LexTwoUnknown, LexCommentOnly, LexCommentIndented,
      LexCommentAfterSpace, LexCommentAfterToken, LexCommentAfterNumber,
      LexLateLabel, LexSecondLabel, LexIndentedLabel }

MaxLexLines == 2

InitLex ==
    /\ PipelineStart
    /\ config_file = FileOf(<<CfgNop, CfgJmp>>)
    /\ source \in {FileOf(ls) : ls \in SeqsOf(LexLines, 1, MaxLexLines)}

SpecLex == InitLex /\ [][Next]_vars

(***************************************************************************)
(* The configuration read from files whose records are well-formed, padded *)
(* with whitespace, or broken in one of several ways.                      *)
(***************************************************************************)
\* A well-formed record with blanks and tabs around every field.
CfgPadded ==
    <<" ", " ", "M", "O", "V", " ", "\t", "M", "E", "M", " ", " ", "B", " ",
      ",", "\t", "M", "O", "V", "A", "B", "S", "B", "\t", " ", ",", " ",
      "0", "0", "0", "0", "1", "0", "0", "0", " ">>

\* Two fields instead of three.
CfgTwoFields ==
    <<"N", "O", "P", ",", "N", "O", "P">>

\* Four fields instead of three.
CfgFourFields ==
    <<"N", "O", "P", ",", "N", "O", "P", ",", "0", ",", "0">>

\* Three fields, the first of them blank.
CfgNoInstr ==
    <<" ", ",", "N", "O", "P", ",", "0">>

CfgBlank == <<>>

RecordLines ==
    { CfgNop, CfgJmp, CfgPadded, CfgUnknownKind, CfgTwoFields, CfgFourFields,
      CfgNoInstr, CfgBlank }

\* One NOP under every file of up to MaxDefs of these records.
InitRecords ==
    /\ PipelineStart
    /\ config_file \in {FileOf(ls) : ls \in SeqsOf(RecordLines, 1, MaxDefs)}
    /\ source = SrcNop

SpecRecords == InitRecords /\ [][Next]_vars

(***************************************************************************)
(* The pipeline on byte declarations with values of several kinds.         *)
(***************************************************************************)
ByteNone ==
    <<"b", "y", "t", "e">>

ByteLabelRef ==
    <<"b", "y", "t", "e", " ", "#", "s">>

ByteMem ==
    <<"b", "y", "t", "e", " ", "[", "5", "]">>

ByteRegister ==
    <<"b", "y", "t", "e", " ", "A">>

ByteTooBig ==
    <<"b", "y", "t", "e", " ", "3", "0", "0">>

ByteLines ==
    { SrcByte, ByteNone, ByteLabelRef, ByteMem, ByteRegister, ByteTooBig,
      SrcLabelledNop }

MaxByteLines == 2

InitByte ==
    /\ PipelineStart
    /\ config_file \in {FileOf(<<CfgNop>>), FileOf(<<CfgJmp, CfgNop>>)}
    /\ source \in {FileOf(ls) : ls \in SeqsOf(ByteLines, 1, MaxByteLines)}

SpecByte == InitByte /\ [][Next]_vars

(***************************************************************************)
(* parse_number on the numerals of every i8 in the four radixes, and on    *)
(* numerals that are malformed or out of range.                            *)
(***************************************************************************)
\* The digits of a natural number in a radix.
RECURSIVE InRadix(_, _)
InRadix(n, radix) ==
    IF n < radix THEN <<DigitChars[n + 1]>>
    ELSE InRadix(n \div radix, radix) \o <<DigitChars[(n % radix) + 1]>>

RadixPrefix ==
    [r \in {2, 8, 10, 16} |->
        CASE r = 2 -> <<"0", "b">>
          [] r = 8 -> <<"0", "o">>
          [] r = 16 -> <<"0", "x">>
          [] r = 10 -> <<>>]

\* The numeral of an integer: a '-' if it is negative, the prefix, the digits.
Numeral(v, radix) ==
    (IF v < 0 THEN <<"-">> ELSE <<>>)
        \o RadixPrefix[radix]
        \o InRadix(IF v < 0 THEN 0 - v ELSE v, radix)

BadNumerals ==
    { <<>>, <<"-">>, <<"0", "x">>, <<"0", "x", "G">>, <<"0", "b", "3">>,
      <<"0", "o", "9">>, <<"1", "2", "a">>, <<"-", "-", "5">>,
      <<"-", "+", "5">>, <<"0", "x", "-", "5">>, <<"-", "-", "1", "2", "8">>,
      <<"0", "x", "2", "A">> }

\* How far beyond the i8 range the numerals go.
NumeralMargin == 3

Numerals ==
    { Numeral(v, radix) :
        v \in (I8Min - NumeralMargin)..(I8Max + NumeralMargin),
        radix \in DOMAIN RadixPrefix }
        \cup BadNumerals

InitNumber ==
    /\ pc = "parse_number"
    /\ NumericIdle
    /\ PipelineIdle
    /\ CheckingIdle
    /\ RunsIdle
    /\ SpansIdle
    /\ SemanticsIdle
    /\ ScanningIdle
    /\ numeral \in Numerals
    /\ numeral_result = None

\* What the negation of i8::MIN gives: a panic where overflow is checked, the
\* wrapped value where it is not.
NegationOutcomes(result) ==
    IF result = Overflow
    THEN {Panic("attempt to negate with overflow"), Ok(I8Min)}
    ELSE {result}

ParseNumber ==
    /\ pc = "parse_number"
    /\ numeral_result' \in NegationOutcomes(parse_number(numeral))
    /\ pc' = "parsed_number"
    /\ UNCHANGED <<numeric, pipeline, checking, runs, spans, semantics,
                   scanning, numeral>>

SpecNumber == InitNumber /\ [][ParseNumber]_vars

(***************************************************************************)
(* tokenize step by step: the loop over the lines and, inside it, the loop *)
(* over the rest of the line.                                              *)
(***************************************************************************)
\* A line of blanks and a line with a word that no blank follows.
ScanBlank ==
    <<" ", " ", "\t">>

ScanUnknownAtEnd ==
    <<"N", "O", "P", " ", "X", "\t">>

ScanLines ==
    LexLines \cup SourceLines \cup ByteLines \cup {ScanBlank, ScanUnknownAtEnd}

MaxScanLines == 1

InitScan ==
    /\ pc = "lex_line"
    /\ NumericIdle
    /\ CheckingIdle
    /\ RunsIdle
    /\ SpansIdle
    /\ LiteralsIdle
    /\ SemanticsIdle
    /\ ScanningIdle
    /\ config_file = <<>>
    /\ config = None
    /\ source \in {FileOf(ls) : ls \in SeqsOf(ScanLines, 1, MaxScanLines)}
    /\ tokens = None
    /\ line_nr = 0
    /\ curr_line = 0
    /\ labels = EmptyMap
    /\ unresolved = <<>>
    /\ errors = <<>>
    /\ history = <<>>
    /\ output = None

\* for (i, line) in input.lines().enumerate(): the head of the body.
NextLine ==
    /\ pc = "lex_line"
    /\ lex_i < Len(Lines(source))
    /\ LET start(line, trimmed) ==
               /\ char_index_accumulator' = Len(line) - Len(trimmed)
               /\ lex_line_ref' = TrimEnd(trimmed)
       IN  start(Lines(source)[lex_i + 1], TrimStart(Lines(source)[lex_i + 1]))
    /\ line_tokens' = <<>>
    /\ pc' = "lex_scan"
    /\ UNCHANGED <<numeric, pipeline, checking, runs, spans, literals,
                   semantics, lex_i, lex_tokens, lex_errors>>

\* One iteration of the while loop.
ScanStep ==
    /\ pc = "lex_scan"
    /\ lex_line_ref # <<>>
    /\ \E step \in {scan_step(create_patterns, lex_i, lex_line_ref,
                              char_index_accumulator)} :
            /\ lex_line_ref' = step.line_ref
            /\ char_index_accumulator' = step.acc
            /\ line_tokens' = line_tokens \o step.tokens
            /\ lex_errors' = lex_errors \o step.errors
    /\ UNCHANGED <<pc, numeric, pipeline, checking, runs, spans, literals,
                   semantics, lex_i, lex_tokens>>

\* After the while loop: the comments are dropped and the line is pushed.
EndLine ==
    /\ pc = "lex_scan"
    /\ lex_line_ref = <<>>
    /\ LET push(kept) ==
               lex_tokens' = IF kept # <<>> THEN Append(lex_tokens, kept)
                             ELSE lex_tokens
       IN  push(SelectSeq(line_tokens, LAMBDA t : t.token_type # "Comment"))
    /\ lex_i' = lex_i + 1
    /\ pc' = "lex_line"
    /\ UNCHANGED <<numeric, pipeline, checking, runs, spans, literals,
                   semantics, lex_line_ref, char_index_accumulator,
                   line_tokens, lex_errors>>

\* After the last line: the tokens, or the errors.
TokenizeReturn ==
    /\ pc = "lex_line"
    /\ lex_i = Len(Lines(source))
    /\ tokens' = IF lex_errors = <<>> THEN Ok(lex_tokens) ELSE Err(lex_errors)
    /\ pc' = "lexed"
    /\ UNCHANGED <<numeric, checking, runs, spans, literals, semantics,
                   scanning, config_file, config, source, line_nr, curr_line,
                   labels, unresolved, errors, history, output>>

NextScan ==
    \/ NextLine
    \/ ScanStep
    \/ EndLine
    \/ TokenizeReturn

SpecScan == InitScan /\ [][NextScan]_vars

\* The loops are not abandoned half-way.
SpecScanLive == SpecScan /\ WF_vars(NextScan)

(***************************************************************************)
(* check_semantics of checker.rs, one iteration of its loop at a time: a   *)
(* line is a byte declaration or an instruction, the first line whose      *)
(* check fails ends the call with its error.                               *)
(***************************************************************************)
\* Line::Byte(declared_values)
ByteLine(declared_values) == [declared_values |-> declared_values]

IsByteLine(line) == "declared_values" \in DOMAIN line

\* CheckedLineCode::Byte(Vec<u8>)
CheckedByte(values) == [values |-> values]

CheckedLine(line, code) == [line |-> line, code |-> code]

\* check_byte: the values are parsed in order, the first one that fails
\* ends the loop.
RECURSIVE check_byte_from(_, _, _, _)
check_byte_from(lbls, declared_values, i, parsed_values) ==
    IF i > Len(declared_values) THEN Ok(CheckedByte(parsed_values))
    ELSE LET pushed(parsed_value) ==
                 IF parsed_value.ok
                 THEN check_byte_from(lbls, declared_values, i + 1,
                                      Append(parsed_values, parsed_value.val))
                 ELSE parsed_value
         IN  pushed(parse_value(lbls, declared_values[i]))

check_byte(lbls, declared_values) ==
    check_byte_from(lbls, declared_values, 1, <<>>)

\* The match of check_semantics on one line.
check_line(cfg_automaton, lbls, line) ==
    IF IsByteLine(line) THEN check_byte(lbls, line.declared_values)
    ELSE check_instruction(cfg_automaton, lbls, line.mnemonic, line.operands)

\* The loop body with an error swallowed: the line is pushed without code
\* and the loop goes on.
check_semantics_step_lenient(cfg_automaton, lbls, lines, done) ==
    LET pushed(line, code) ==
            [checked_lines |->
                Append(done, CheckedLine(line, IF code.ok THEN code.val
                                               ELSE CheckedByte(<<>>))),
             semantic |-> None]
    IN  The({pushed(lines[Len(done) + 1], code) :
                code \in {check_line(cfg_automaton, lbls,
                                     lines[Len(done) + 1])}})

\* One iteration of the loop of check_semantics on the line after the ones
\* pushed: `?` returns the error, otherwise the checked line is pushed.
check_semantics_step(cfg_automaton, lbls, lines, done) ==
    LET pushed(line, code) ==
            IF code.ok
            THEN [checked_lines |-> Append(done, CheckedLine(line, code.val)),
                  semantic |-> None]
            ELSE [checked_lines |-> done, semantic |-> code]
    IN  The({pushed(lines[Len(done) + 1], code) :
                code \in {check_line(cfg_automaton, lbls,
                                     lines[Len(done) + 1])}})

\* The descriptions config.automaton is built from.
SemanticDescriptions == <<DescNop, DescOrA, DescJmp, DescMov>>

ByteOfNumbers == ByteLine(<<NumberToken(1, 5), NumberToken(NarrowMax, 8)>>)

ByteOfLabel == ByteLine(<<LabelRefToken(LabelS, 5)>>)

ByteTooWide == ByteLine(<<NumberToken(NarrowMax + 1, 5)>>)

\* A declaration with two values that fail, each with another error.
ByteTwoFailures ==
    ByteLine(<<NumberToken(1, 5), LabelRefToken(LabelNowhere, 8),
               NumberToken(NarrowMax + 1, 17)>>)

SemanticLines ==
    { Instruction(MnemonicToken("Nop", SrcNop), <<>>),
      Instruction(MnemonicToken("Jmpimm", JmpContent),
                  <<Operand("Const", NumberToken(0, 7))>>),
      Instruction(MnemonicToken("Jmpimm", JmpContent),
                  <<Operand("Const", NumberToken(NarrowMin - 1, 7))>>),
      Instruction(MnemonicToken("Jmpimm", JmpContent),
                  <<Operand("Const", LabelRefToken(LabelNowhere, 7))>>),
      Instruction(MnemonicToken("Or", SrcOr),
                  <<Operand("B", RegisterToken("B", 3))>>),
      ByteOfNumbers, ByteOfLabel, ByteTooWide, ByteTwoFailures }

MaxSemanticLines == 3

InitSemantics ==
    /\ pc = "check_line"
    /\ NumericIdle
    /\ RunsIdle
    /\ SpansIdle
    /\ LiteralsIdle
    /\ ScanningIdle
    /\ config_file = <<>>
    /\ config = None
    /\ source = <<>>
    /\ tokens = None
    /\ line_nr = 0
    /\ curr_line = 0
    /\ labels \in {EmptyMap, LabelS :> 2}
    /\ unresolved = <<>>
    /\ errors = <<>>
    /\ history = <<>>
    /\ output = None
    /\ descriptions = SemanticDescriptions
    /\ automaton = build(descriptions)
    /\ instruction = None
    /\ checked = None
    /\ input_lines \in SeqsOf(SemanticLines, 0, MaxSemanticLines)
    /\ checked_lines = <<>>
    /\ semantic = None

\* for line in lines { ... }
CheckLine ==
    /\ pc = "check_line"
    /\ Len(checked_lines) < Len(input_lines)
    /\ \E step \in {check_semantics_step(automaton.val, labels, input_lines,
                                         checked_lines)} :
            /\ checked_lines' = step.checked_lines
            /\ semantic' = step.semantic
            /\ pc' = IF step.semantic = None THEN "check_line"
                     ELSE "semantics_done"
    /\ UNCHANGED <<numeric, pipeline, checking, runs, spans, literals,
                   scanning, input_lines>>

\* Ok(checked_lines)
SemanticsReturn ==
    /\ pc = "check_line"
    /\ Len(checked_lines) = Len(input_lines)
    /\ semantic' = Ok(checked_lines)
    /\ pc' = "semantics_done"
    /\ UNCHANGED <<numeric, pipeline, checking, runs, spans, literals,
                   scanning, input_lines, checked_lines>>

NextSemantics == CheckLine \/ SemanticsReturn

SpecSemantics == InitSemantics /\ [][NextSemantics]_vars

(***************************************************************************)
(* C2: an 8-bit operand is accepted exactly for values in [-128, 255] and  *)
(* a 16-bit operand exactly for values in [-32768, 65535]; a rejected      *)
(* value fails with NumberOutOfRange carrying the value, and an accepted   *)
(* value v is encoded as v mod 2^8, respectively v mod 2^16.               *)
(***************************************************************************)
RangeBoundary ==
    /\ narrow # None =>
        /\ narrow.ok <=> (-128 <= number /\ number <= 255)
        /\ narrow.ok =>
            /\ narrow.val \in 0..255
            /\ \E k \in -1..0 : number = narrow.val + 256 * k
        /\ ~narrow.ok => narrow.err = NumberOutOfRange(number)
        /\ number = 255 => narrow = Ok(255)
        /\ number \in {256, -129} => ~narrow.ok
    /\ wide # None =>
        /\ wide.ok <=> (-32768 <= number /\ number <= 65535)
        /\ wide.ok =>
            /\ wide.val \in 0..65535
            /\ \E k \in -1..0 : number = wide.val + 65536 * k
        /\ ~wide.ok => wide.err = NumberOutOfRange(number)
        /\ number = 65535 => wide = Ok(65535)
        /\ number = 65536 => ~wide.ok

RangeBoundaryWitness ==
    \/ number = 255 /\ narrow = Ok(255) /\ wide = Ok(255)
    \/ number = -129 /\ narrow # None /\ ~narrow.ok /\ wide = Ok(65407)

(***************************************************************************)
(* What a source line says, read off its tokens.                           *)
(***************************************************************************)
\* The tokens of a line after its leading labels.
Statement(tks) == DropN(tks, LeadingLabels(tks))

\* The integer a literal denotes: a sign, a radix prefix, digits.
LiteralValue(str) ==
    LET neg == str # <<>> /\ Head(str) = "-"
        rest == IF neg THEN Tail(str) ELSE str
        radix == IF StartsWith(rest, <<"0", "x">>) THEN 16
                 ELSE IF StartsWith(rest, <<"0", "b">>) THEN 2
                 ELSE IF StartsWith(rest, <<"0", "o">>) THEN 8
                 ELSE 10
        v == DigitsValue(IF radix = 10 THEN rest ELSE DropN(rest, 2), radix)
    IN  IF neg THEN 0 - v ELSE v

\* The operand kind of the configuration that an operand token is of.
KindOf(token) ==
    CASE token.token_type = "Register" -> token.content[1]
      [] token.token_type \in {"Number", "LabelRef"} -> "Const"
      [] token.token_type \in {"MemAddress", "LabelAddressRef"} -> "Mem"
      [] OTHER -> "none"

\* The line is an instruction of the description: its mnemonic, its operand
\* kinds in order, and numeric operands that fit 8 bits.
Describes(def, stmt) ==
    /\ stmt # <<>>
    /\ stmt[1].token_type = "Mnemonic"
    /\ stmt[1].content = def.mnem
    /\ Len(stmt) - 1 = Len(def.args_def)
    /\ \A a \in 1..Len(def.args_def) :
            /\ KindOf(stmt[a + 1]) = def.args_def[a]
            /\ stmt[a + 1].token_type \in {"Number", "MemAddress"} =>
                    LiteralValue(stmt[a + 1].content) \in NarrowMin..NarrowMax

\* The units the description asks for: the opcode, then per operand nothing
\* for a register, the byte of a number, the reference of a label.
ExpectedUnits(def, stmt) ==
    <<Value(def.binary)>>
        \o Concat([a \in 1..(Len(stmt) - 1) |->
                IF stmt[a + 1].token_type = "Register" THEN <<>>
                ELSE IF stmt[a + 1].token_type \in {"Number", "MemAddress"}
                THEN <<Value(Format08b(AsU8(LiteralValue(stmt[a + 1].content))))>>
                ELSE <<LabelRef(stmt[a + 1].content, stmt[a + 1].span)>>])

Parsing == config # None /\ config.ok /\ tokens # None /\ tokens.ok

(***************************************************************************)
(* C1: for every description registered in the instruction set and every   *)
(* source instruction with its mnemonic and operand kinds and in-range     *)
(* values, the line emits the opcode of the description first, then the    *)
(* operand bytes in operand order, none for a register.                    *)
(***************************************************************************)
RoundTripEncoding ==
    Parsing =>
        \A i \in 1..Len(history) :
            \A k \in 1..Len(config.val) :
                Describes(config.val[k], Statement(tokens.val[i])) =>
                    history[i].ret =
                        Ok(ExpectedUnits(config.val[k],
                                         Statement(tokens.val[i])))

(***************************************************************************)
(* C3: a label is bound to the offset in the output of the first unit of   *)
(* the line that carries it, the number of units emitted by the lines      *)
(* before it and not the number of the line, and a reference to it, before *)
(* or after the definition, resolves to that offset.                       *)
(***************************************************************************)
\* The parsed lines that carry the label, the last of them binding it.
LinesDefining(name) ==
    {i \in 1..Len(history) :
        \E j \in 1..LeadingLabels(tokens.val[i]) :
            tokens.val[i][j].content = name}

LabelAddressing ==
    (tokens # None /\ tokens.ok) =>
        /\ \A i \in 1..Len(history) :
                \A j \in 1..LeadingLabels(tokens.val[i]) :
                    LET name == tokens.val[i][j].content
                    IN  (\A later \in LinesDefining(name) : later <= i) =>
                            /\ name \in DOMAIN labels
                            /\ labels[name] = history[i].start
        /\ (pc = "done" /\ output.ok) =>
                \A u \in 1..Len(unresolved) :
                    unresolved[u].unit = "LabelRef" =>
                        \A i \in LinesDefining(unresolved[u].label) :
                            (\A later \in LinesDefining(unresolved[u].label) :
                                    later <= i) =>
                                output.val[u] = Format08b(history[i].start)

\* A jump of two units to a label on the second line: the label is at 2.
LabelAddressingWitness ==
    /\ pc = "done"
    /\ source = FileOf(<<SrcJmpS, SrcLabelledNop>>)
    /\ labels = LabelS :> 2
    /\ output = Ok(<<Format08b(6), Format08b(2), Format08b(0)>>)

(***************************************************************************)
(* C4: a reference to a label that is defined nowhere is reported as an    *)
(* unknown-label error that carries the span of the reference, and gives   *)
(* no value.                                                               *)
(***************************************************************************)
UnknownLabelCarriesSpan ==
    (/\ pc = "checked"
     /\ MnemonicKey(instruction.mnemonic.value) \in DOMAIN automaton.val
     /\ Len(instruction.operands) = 1
     /\ instruction.operands[1].token.token_type = "LabelRef"
     /\ instruction.operands[1].token.value \notin DOMAIN labels) =>
        /\ ~checked.ok
        /\ ~IsPanic(checked)
        /\ checked.err =
                with_span("UnknownLabel", instruction.operands[1].token.span)

(***************************************************************************)
(* C5: a malformed line between two well-formed lines gives exactly one    *)
(* parse error, with a span on the malformed line, and the line after it   *)
(* is parsed as if the malformed line were absent.                         *)
(***************************************************************************)
OneErrorPerMalformedLine ==
    (/\ Parsing
     /\ Len(tokens.val) = 3
     /\ Len(history) = 3
     /\ history[1].ret.ok
     /\ ~history[2].ret.ok
     /\ history[3].ret.ok) =>
        /\ Len(errors) = 1
        /\ errors[1].span.line = tokens.val[2][1].span.line
        /\ history[3].start = Len(history[1].ret.val)

(***************************************************************************)
(* C6: when a mnemonic is registered with different operand counts, an     *)
(* instruction gets the opcode of a description with its own operand count *)
(* and operand kinds, never of one with another count, and the form        *)
(* without operands is found whenever it is registered.                    *)
(***************************************************************************)
\* The lookup in the list of definitions.
ListDisambiguation ==
    Parsing =>
        \A i \in 1..Len(history) :
            LET stmt == Statement(tokens.val[i])
                ret == history[i].ret
                defs == 1..Len(config.val)
            IN  (stmt # <<>> /\ stmt[1].token_type = "Mnemonic") =>
                    /\ ret.ok =>
                        /\ \E k \in defs :
                                /\ config.val[k].mnem = stmt[1].content
                                /\ Len(config.val[k].args_def) = Len(stmt) - 1
                                /\ \A a \in 1..(Len(stmt) - 1) :
                                        KindOf(stmt[a + 1]) =
                                            config.val[k].args_def[a]
                                /\ ret.val[1] = Value(config.val[k].binary)
                        /\ \A k \in defs :
                                (/\ config.val[k].mnem = stmt[1].content
                                 /\ Len(config.val[k].args_def) # Len(stmt) - 1) =>
                                    ret.val[1] # Value(config.val[k].binary)
                    /\ (/\ Len(stmt) = 1
                        /\ \E k \in defs :
                                /\ config.val[k].mnem = stmt[1].content
                                /\ config.val[k].args_def = <<>>) =>
                            /\ ret.ok
                            /\ Len(ret.val) = 1

\* The walk through the automaton.
AutomatonDisambiguation ==
    (pc = "checked" /\ instruction.mnemonic.token_type = "Mnemonic") =>
        LET kinds == [a \in 1..Len(instruction.operands) |->
                         instruction.operands[a].kind]
            same == {k \in 1..Len(descriptions) :
                        descriptions[k].mnemonic = instruction.mnemonic.value}
        IN  /\ checked.ok =>
                /\ \E k \in same :
                        /\ descriptions[k].operands = kinds
                        /\ checked.val.mnemonic_code =
                                BitsValue(descriptions[k].opcode)
                /\ \A k \in same :
                        Len(descriptions[k].operands) # Len(kinds) =>
                            checked.val.mnemonic_code #
                                BitsValue(descriptions[k].opcode)
            /\ (kinds = <<>> /\ \E k \in same : descriptions[k].operands = <<>>) =>
                    /\ checked.ok
                    /\ checked.val.operand_codes = <<>>

TerminalDisambiguation == ListDisambiguation /\ AutomatonDisambiguation

\* "OR" under a config that registers "OR A" before "OR".
TerminalDisambiguationWitness ==
    /\ config_file = FileOf(<<CfgOrA, CfgOr>>)
    /\ source = SrcOr
    /\ Len(history) = 1
    /\ history[1].ret = Ok(<<Value(Format08b(16))>>)

(***************************************************************************)
(* C7: tokenization does not depend on the order in which the patterns are *)
(* tried: two runs on the same input give the same tokens.                 *)
(***************************************************************************)
PatternOrderIndependence ==
    (pc = "lib_done" /\ previous # None) => tokens = previous

(***************************************************************************)
(* C8: every unit of the output is exactly 8 binary digits, most           *)
(* significant bit first, whatever the value it encodes.                   *)
(***************************************************************************)
OutputUnitsAreEightBits ==
    (output # None /\ output.ok) =>
        \A u \in 1..Len(output.val) :
            /\ Len(output.val[u]) = BitWidth
            /\ \A c \in 1..Len(output.val[u]) : output.val[u][c] \in {"0", "1"}
            /\ (/\ unresolved[u].unit = "LabelRef"
                /\ labels[unresolved[u].label] < U8Modulus) =>
                    BitsValue(output.val[u]) = labels[unresolved[u].label]

(***************************************************************************)
(* C9: an instruction set in which two descriptions have the same mnemonic *)
(* and the same operand kinds is rejected when it is built.                *)
(***************************************************************************)
DuplicatePathRejected ==
    (config # None /\ config.ok) =>
        \A i, j \in 1..Len(config.val) :
            (/\ config.val[i].mnem = config.val[j].mnem
             /\ config.val[i].args_def = config.val[j].args_def) => i = j

(***************************************************************************)
(* C10: a mnemonic token for which the instruction set has no description  *)
(* is reported as an unknown-mnemonic error.                               *)
(***************************************************************************)
UnknownMnemonicIsAnError ==
    (/\ pc = "checked"
     /\ instruction.mnemonic.token_type = "Mnemonic"
     /\ MnemonicKey(instruction.mnemonic.value) \notin DOMAIN automaton.val) =>
        /\ ~checked.ok
        /\ ~IsPanic(checked)
        /\ checked.err = UnknownMnemonic(instruction.mnemonic.content)

(***************************************************************************)
(* C11: when the operand kinds of an instruction leave the automaton, the  *)
(* check fails with InvalidOperand naming the token of the first operand   *)
(* that has no edge, whatever the values of that or later operands.        *)
(***************************************************************************)
\* The index of the first operand without an edge of its kind, walking from
\* the node; 0 when every operand has one.
RECURSIVE FirstOffPath(_, _, _)
FirstOffPath(node, operands, i) ==
    IF i > Len(operands) THEN 0
    ELSE IF ~node.branch THEN i
    ELSE IF OperandKey(operands[i].kind) \notin DOMAIN node.children THEN i
    ELSE FirstOffPath(node.children[OperandKey(operands[i].kind)],
                      operands, i + 1)

InvalidOperandReported ==
    (/\ pc = "checked"
     /\ instruction.mnemonic.token_type = "Mnemonic"
     /\ MnemonicKey(instruction.mnemonic.value) \in DOMAIN automaton.val) =>
        LET off == FirstOffPath(
                        automaton.val[MnemonicKey(instruction.mnemonic.value)],
                        instruction.operands, 1)
        IN  off # 0 =>
                /\ ~checked.ok
                /\ ~IsPanic(checked)
                /\ checked.err =
                        InvalidOperand(instruction.operands[off].token.content)

(***************************************************************************)
(* C12: a 16-bit memory operand with accepted value v gives exactly two    *)
(* operand bytes, (v div 256) mod 256 and then v mod 256; an 8-bit operand *)
(* gives exactly one byte; a register gives none.                          *)
(***************************************************************************)
\* The value an operand token denotes: its number, or the offset of its label.
OperandValue(token) ==
    IF token.token_type = "Number" THEN token.value ELSE labels[token.value]

ExpectedOperandBytes(operand) ==
    CASE operand.kind = "Mem16" ->
            <<(OperandValue(operand.token) \div U8Modulus) % U8Modulus,
              OperandValue(operand.token) % U8Modulus>>
      [] operand.kind \in {"Mem8", "Const"} ->
            <<OperandValue(operand.token) % U8Modulus>>
      [] OTHER -> <<>>

WideOperandBytes ==
    (pc = "checked" /\ checked.ok) =>
        checked.val.operand_codes =
            Concat([a \in 1..Len(instruction.operands) |->
                       ExpectedOperandBytes(instruction.operands[a])])

\* MOV [258] B: the bytes 1 and 2, in that order.
WideOperandBytesWitness ==
    /\ pc = "checked"
    /\ instruction.mnemonic.value = "Mov"
    /\ instruction.operands[1].token.token_type = "Number"
    /\ instruction.operands[1].token.value = 258
    /\ checked = Ok(CheckedInstruction(8, <<1, 2>>))

(***************************************************************************)
(* C13: parse_all goes through every line, also after a line that failed;  *)
(* the errors returned are those of the failing lines in source order, the *)
(* units those of the other lines in source order; the result is Ok        *)
(* exactly when no line failed, and a failure leaves no output.            *)
(***************************************************************************)
\* parse_all has returned.
Parsed == Parsing /\ pc \in {"resolve", "failed", "done"}

ParserAggregates ==
    Parsed =>
        /\ Len(history) = Len(tokens.val)
        /\ \A i \in 1..Len(history) :
                /\ history[i].ret =
                        parse_line(EmptyMap, 0, tokens.val[i], config.val).ret
                /\ ~history[i].ret.ok => history[i].ret.err # <<>>
        /\ errors = Concat([i \in 1..Len(history) |->
                               IF history[i].ret.ok THEN <<>>
                               ELSE history[i].ret.err])
        /\ unresolved = Concat([i \in 1..Len(history) |->
                                   IF history[i].ret.ok THEN history[i].ret.val
                                   ELSE <<>>])
        /\ (pc # "failed") <=> (\A i \in 1..Len(history) : history[i].ret.ok)
        /\ pc = "failed" => output = None

\* A failing line, a good line, a failing line: the errors of both are kept.
ParserAggregatesWitness ==
    /\ Parsed
    /\ pc = "failed"
    /\ Len(history) = 3
    /\ ~history[1].ret.ok
    /\ history[2].ret.ok
    /\ ~history[3].ret.ok
    /\ errors = history[1].ret.err \o history[3].ret.err
    /\ output = None

(***************************************************************************)
(* C14: the lexer goes on after an unrecognised lexeme: every unrecognised *)
(* whitespace-delimited word gives exactly one UnknownToken error whose    *)
(* span covers the word, the words after it are still recognised, and the  *)
(* result is the errors in source order exactly when there is one.         *)
(***************************************************************************)
\* The whitespace-delimited words of a line from position pos, each with the
\* column it starts at.
RECURSIVE WordsFrom(_, _)
WordsFrom(line, pos) ==
    IF pos > Len(line) THEN <<>>
    ELSE IF IsWhitespace(line[pos]) THEN WordsFrom(line, pos + 1)
    ELSE <<[start |-> pos - 1,
            text |-> SubSeq(line, pos,
                            pos + WordLen(DropN(line, pos - 1)) - 1)]>>
            \o WordsFrom(line, pos + WordLen(DropN(line, pos - 1)))

\* The word is a lexeme of one of the patterns.
Recognised(word) ==
    \E k \in 1..Len(create_patterns) :
        /\ captures(create_patterns[k], word).matched
        /\ captures(create_patterns[k], word).word_len = Len(word)

\* One error for each unrecognised word of line i, over the word.
UnknownWords(line, i) ==
    LET ws == WordsFrom(line, 1)
    IN  Concat([k \in 1..Len(ws) |->
                   IF Recognised(ws[k].text) THEN <<>>
                   ELSE <<with_span("UnknownToken",
                                    Span(i, ws[k].start,
                                         ws[k].start + Len(ws[k].text)))>>])

HasComment(text) == \E c \in 1..Len(text) : text[c] = ";"

LexerAggregates ==
    (tokens # None /\ ~HasComment(source)) =>
        LET ls == Lines(source)
            expected == Concat([i \in 1..Len(ls) |->
                                   UnknownWords(ls[i], i - 1)])
        IN  /\ tokens.ok <=> expected = <<>>
            /\ ~tokens.ok => tokens.err = expected

(***************************************************************************)
(* C15: every failure of the check of an instruction is a returned         *)
(* diagnostic that carries the source span of one of the tokens of the     *)
(* instruction; none is a crash and none comes without a span.             *)
(***************************************************************************)
\* The spans of the tokens of the instruction under check.
InstructionSpans ==
    {instruction.mnemonic.span}
        \cup {instruction.operands[a].token.span :
                a \in 1..Len(instruction.operands)}

EveryFailureHasSpan ==
    (pc = "checked" /\ ~checked.ok) =>
        /\ ~IsPanic(checked)
        /\ "span" \in DOMAIN checked.err
        /\ checked.err.span \in InstructionSpans

(***************************************************************************)
(* C16: a label declaration that does not begin its line (it is not the    *)
(* first token, or it does not start at column 0) is rejected with an      *)
(* error over the declaration and binds no name.                           *)
(***************************************************************************)
\* The label token is the first of its line and starts at column 0.
AtLineStart(tks, j) == j = 1 /\ tks[j].span.start = 0

\* Some line declares the name where its line begins.
DeclaredAtLineStart(name) ==
    \E i \in 1..Len(tokens.val) :
        /\ tokens.val[i][1].token_type = "Label"
        /\ tokens.val[i][1].content = name
        /\ AtLineStart(tokens.val[i], 1)

LabelOnlyAtLineStart ==
    Parsing =>
        \A i \in 1..Len(history) :
            \A j \in 1..Len(tokens.val[i]) :
                (/\ tokens.val[i][j].token_type = "Label"
                 /\ ~AtLineStart(tokens.val[i], j)) =>
                    /\ ~history[i].ret.ok
                    /\ \E e \in 1..Len(history[i].ret.err) :
                            history[i].ret.err[e].span = tokens.val[i][j].span
                    /\ ~DeclaredAtLineStart(tokens.val[i][j].content) =>
                            tokens.val[i][j].content \notin DOMAIN labels

(***************************************************************************)
(* C17: a line whose first token after its leading labels is neither a     *)
(* mnemonic nor the byte keyword is rejected with a WrongFirst error over  *)
(* that token and gives no units; a line of labels only is rejected too    *)
(* and gives no units.                                                     *)
(***************************************************************************)
\* The tokens that follow the label declarations at the start of a line.
RECURSIVE AfterLabels(_)
AfterLabels(tks) ==
    IF tks # <<>> /\ Head(tks).token_type = "Label"
    THEN AfterLabels(Tail(tks))
    ELSE tks

\* The number of units in the output once line i has been parsed.
UnitsAfter(i) ==
    IF i < Len(history) THEN history[i + 1].start ELSE Len(unresolved)

LineBeginning ==
    Parsing =>
        \A i \in 1..Len(history) :
            LET stmt == AfterLabels(tokens.val[i])
            IN  /\ (stmt # <<>>
                        /\ stmt[1].token_type \notin {"Mnemonic", "Byte"}) =>
                        /\ history[i].ret =
                                Err(<<with_span("WrongFirst", stmt[1].span)>>)
                        /\ UnitsAfter(i) = history[i].start
                /\ stmt = <<>> =>
                        /\ ~history[i].ret.ok
                        /\ Len(history[i].ret.err) = 1
                        /\ history[i].ret.err[1].kind = "EmptyLine"
                        /\ UnitsAfter(i) = history[i].start

\* "s: A": the error is over the register, after the label.
LineBeginningWitness ==
    /\ Parsing
    /\ source = FileOf(<<SrcNop, LexLabelledWrongFirst>>)
    /\ Len(history) = 2
    /\ history[2].ret = Err(<<with_span("WrongFirst", Span(1, 3, 4))>>)
    /\ Len(unresolved) = 1

(***************************************************************************)
(* C18: a label declared on several lines raises no error; the label table *)
(* has one binding for the name, the offset of its last declaration, and   *)
(* every reference to it, before or after, resolves to that offset.        *)
(***************************************************************************)
\* The last of the lines that declare the name.
LastDefining(name) ==
    CHOOSE i \in LinesDefining(name) : \A k \in LinesDefining(name) : k <= i

DuplicateLabelOverwrites ==
    Parsed =>
        \A name \in {n \in DOMAIN labels : Cardinality(LinesDefining(n)) > 1} :
            /\ \A i \in LinesDefining(name) :
                    history[i].ret =
                        parse_line(EmptyMap, 0, tokens.val[i], config.val).ret
            /\ labels[name] = history[LastDefining(name)].start
            /\ pc = "done" =>
                    \A u \in 1..Len(unresolved) :
                        (/\ unresolved[u].unit = "LabelRef"
                         /\ unresolved[u].label = name) =>
                            IF output.ok
                            THEN output.val[u] =
                                    Format08b(history[LastDefining(name)].start)
                            ELSE \A e \in 1..Len(output.err) :
                                    output.err[e].span # unresolved[u].span

\* s: NOP / JMP #s / s: NOP: the reference resolves to the second s, at 3.
DuplicateLabelOverwritesWitness ==
    /\ pc = "done"
    /\ source = FileOf(<<SrcLabelledNop, SrcJmpS, SrcLabelledNop>>)
    /\ labels = LabelS :> 3
    /\ errors = <<>>
    /\ output = Ok(<<Format08b(0), Format08b(6), Format08b(3), Format08b(0)>>)

(***************************************************************************)
(* C19: the sum of two spans is the enclosing character range, from the    *)
(* smaller start to the larger end, on the later of the two lines, in      *)
(* either order of the operands.                                           *)
(***************************************************************************)
SpanMergeLaterLine ==
    pc = "span_done" =>
        span_sum = Span(Max(span_self.line, span_rhs.line),
                        Min(span_self.start, span_rhs.start),
                        Max(span_self.end, span_rhs.end))

(***************************************************************************)
(* C20: the text from a ';' to the end of its line never becomes a token   *)
(* and never causes a lexer error, wherever the ';' stands; the tokens and *)
(* errors of the source are those of the source without its comments.      *)
(***************************************************************************)
\* The line up to its first ';'.
StripComment(line) ==
    IF HasComment(line) THEN SubSeq(line, 1, IndexOf(line, ";") - 1) ELSE line

\* The type and the content of every token, line by line.
Plain(lines) ==
    [i \in 1..Len(lines) |->
        [j \in 1..Len(lines[i]) |->
            [token_type |-> lines[i][j].token_type,
             content |-> lines[i][j].content]]]

CommentsDiscarded ==
    tokens # None =>
        LET ls == Lines(source)
            bare == tokenize(create_patterns,
                             FileOf([i \in 1..Len(ls) |-> StripComment(ls[i])]))
        IN  /\ tokens.ok = bare.ok
            /\ tokens.ok =>
                    /\ Plain(tokens.val) = Plain(bare.val)
                    /\ \A i \in 1..Len(tokens.val) :
                            \A j \in 1..Len(tokens.val[i]) :
                                tokens.val[i][j].token_type # "Comment"
            /\ ~tokens.ok => tokens.err = bare.err

(***************************************************************************)
(* C21: a configuration text with a record that names an unknown operand   *)
(* kind, or that is not `instr, full-name, binary`, fails with the 1-based *)
(* number of the first such line and gives no configuration; the fields of *)
(* a well-formed record are taken without the whitespace around them.      *)
(***************************************************************************)
\* The names of the operand kinds in a record.
Vocabulary ==
    [Mem |-> <<"M", "E", "M">>, Const |-> <<"C", "O", "N", "S", "T">>,
     A |-> <<"A">>, B |-> <<"B">>, F |-> <<"F">>]

KnownKind(word) == \E kind \in DOMAIN Vocabulary : Vocabulary[kind] = word

Commas(line) == {i \in 1..Len(line) : line[i] = ","}

\* The text between two positions that hold separators (or the line's ends).
Between(line, lo, hi) == SubSeq(line, lo + 1, hi - 1)

\* The three fields of a record with two commas.
RecordFields(line) ==
    LET c1 == CHOOSE i \in Commas(line) : \A j \in Commas(line) : i <= j
        c2 == CHOOSE i \in Commas(line) : \A j \in Commas(line) : i >= j
    IN  <<Between(line, 0, c1), Between(line, c1, c2),
          Between(line, c2, Len(line) + 1)>>

\* The text from its first to its last character that is not whitespace.
Unpadded(text) ==
    LET ink == {i \in 1..Len(text) : ~IsWhitespace(text[i])}
    IN  IF ink = {} THEN <<>>
        ELSE SubSeq(text, CHOOSE i \in ink : \A j \in ink : i <= j,
                    CHOOSE i \in ink : \A j \in ink : i >= j)

\* The words of the first field: the mnemonic, then the operand kinds.
InstrWords(line) ==
    LET ws == WordsFrom(RecordFields(line)[1], 1)
    IN  [k \in 1..Len(ws) |-> ws[k].text]

WellFormedRecord(line) ==
    /\ Cardinality(Commas(line)) = 2
    /\ InstrWords(line) # <<>>
    /\ \A k \in 2..Len(InstrWords(line)) : KnownKind(InstrWords(line)[k])

\* What a well-formed record says.
RecordMeaning(line) ==
    [mnem |-> InstrWords(line)[1],
     args_def |-> [k \in 1..(Len(InstrWords(line)) - 1) |->
                      CHOOSE kind \in DOMAIN Vocabulary :
                          Vocabulary[kind] = InstrWords(line)[k + 1]],
     mnem_full |-> Unpadded(RecordFields(line)[2]),
     binary |-> Unpadded(RecordFields(line)[3])]

ConfigFailsAtFirstOffence ==
    config # None =>
        LET ls == Lines(config_file)
            bad == {i \in 1..Len(ls) : ~WellFormedRecord(ls[i])}
        IN  /\ bad # {} =>
                    /\ ~config.ok
                    /\ "val" \notin DOMAIN config
                    /\ config.err.line_num = FirstOf(bad)
                    /\ config.err.kind.kind =
                            IF Cardinality(Commas(ls[FirstOf(bad)])) = 2
                                /\ InstrWords(ls[FirstOf(bad)]) # <<>>
                            THEN "ParseArg" ELSE "Split"
            /\ bad = {} =>
                    config = Ok([i \in 1..Len(ls) |-> RecordMeaning(ls[i])])

\* A padded record, then an unknown kind on line 2, then a two-field line.
ConfigFailsAtFirstOffenceWitness ==
    /\ config_file = FileOf(<<CfgPadded, CfgUnknownKind, CfgTwoFields>>)
    /\ pc = "failed"
    /\ config = Err(complete([kind |-> "ParseArg", arg |-> <<"X">>], 2))

(***************************************************************************)
(* C22: resolution keeps the sequence of units: on success the output has  *)
(* one string per unit in the same order, a Value unit giving its own      *)
(* string; when references are unknown the result is the errors of all of  *)
(* them in source order, and no output.                                    *)
(***************************************************************************)
UnknownReference(unit) ==
    unit.unit = "LabelRef" /\ unit.label \notin DOMAIN labels

ResolutionPreservesUnits ==
    pc = "done" =>
        /\ output.ok <=>
                \A u \in 1..Len(unresolved) : ~UnknownReference(unresolved[u])
        /\ output.ok =>
                /\ Len(output.val) = Len(unresolved)
                /\ \A u \in 1..Len(unresolved) :
                        output.val[u] =
                            IF unresolved[u].unit = "Value"
                            THEN unresolved[u].bin
                            ELSE Format08b(labels[unresolved[u].label])
        /\ ~output.ok =>
                /\ "val" \notin DOMAIN output
                /\ output.err =
                        Concat([u \in 1..Len(unresolved) |->
                                   IF UnknownReference(unresolved[u])
                                   THEN <<with_span("UnknownLabel",
                                                    unresolved[u].span)>>
                                   ELSE <<>>])

\* JMP #s / NOP / JMP #s without an s: two errors, of lines 0 and 2.
ResolutionPreservesUnitsWitness ==
    /\ pc = "done"
    /\ source = FileOf(<<SrcJmpS, SrcNop, SrcJmpS>>)
    /\ Len(unresolved) = 5
    /\ ~output.ok
    /\ Len(output.err) = 2
    /\ output.err[1].span.line = 0
    /\ output.err[2].span.line = 2

(***************************************************************************)
(* C23: a reference to a defined label is emitted as the offset bound to   *)
(* the label, in one byte at an immediate or 8-bit memory position and in  *)
(* two bytes at a 16-bit memory position: when the instruction is          *)
(* accepted, the bytes emitted, read most significant first, are the       *)
(* offset.                                                                 *)
(***************************************************************************)
\* The number a sequence of bytes spells, most significant byte first.
RECURSIVE Decode(_)
Decode(bytes) ==
    IF bytes = <<>> THEN 0
    ELSE Decode(SubSeq(bytes, 1, Len(bytes) - 1)) * U8Modulus
            + bytes[Len(bytes)]

\* The instruction under check has one operand with a value, a reference to
\* a defined label.
RefersToDefinedLabel ==
    /\ instruction.operands # <<>>
    /\ instruction.operands[1].token.token_type = "LabelRef"
    /\ instruction.operands[1].token.value \in DOMAIN labels

LabelReferenceDecodes ==
    (pc = "checked" /\ RefersToDefinedLabel /\ checked.ok) =>
        /\ Len(checked.val.operand_codes) =
                IF instruction.operands[1].kind = "Mem16" THEN 2 ELSE 1
        /\ \A b \in 1..Len(checked.val.operand_codes) :
                checked.val.operand_codes[b] \in 0..(U8Modulus - 1)
        /\ Decode(checked.val.operand_codes) =
                labels[instruction.operands[1].token.value]

(***************************************************************************)
(* C24: when the mnemonic of an instruction is in the automaton and every  *)
(* operand has an edge of its kind, the node reached after the last        *)
(* operand has a Leaf under the terminal key: the check returns an opcode  *)
(* (or the error of an operand's value) and reaches no unreachable branch. *)
(***************************************************************************)
\* The node reached from the node by the edges of the operands' kinds.
RECURSIVE NodeAfter(_, _, _)
NodeAfter(node, operands, i) ==
    IF i > Len(operands) THEN node
    ELSE NodeAfter(node.children[OperandKey(operands[i].kind)], operands,
                   i + 1)

TerminalEdgeAfterOperands ==
    (/\ pc = "checked"
     /\ instruction.mnemonic.token_type = "Mnemonic"
     /\ MnemonicKey(instruction.mnemonic.value) \in DOMAIN automaton.val
     /\ FirstOffPath(automaton.val[MnemonicKey(instruction.mnemonic.value)],
                     instruction.operands, 1) = 0) =>
        LET reached ==
                NodeAfter(automaton.val[MnemonicKey(instruction.mnemonic.value)],
                          instruction.operands, 1)
        IN  /\ reached.branch
            /\ MachineCode \in DOMAIN reached.children
            /\ ~reached.children[MachineCode].branch
            /\ ~IsPanic(checked)
            /\ ~checked.ok =>
                    checked.err.kind \in {"NumberOutOfRange", "UnknownLabel"}

(***************************************************************************)
(* C25: a byte declaration whose values are numeric literals that fit a    *)
(* byte or label references gives one unit per value, in order, and none   *)
(* when it has no value; a declaration with a value of any other kind, or  *)
(* with a number outside [-128, 255], is rejected; the result does not     *)
(* depend on the instruction set.                                          *)
(***************************************************************************)
\* A value every reading of "the 8-bit range" accepts.
FitsByte(token) ==
    /\ token.token_type = "Number"
    /\ LiteralValue(token.content) \in (I8Min + 1)..I8Max

\* A value no byte declaration may hold.
NoByteValue(token) ==
    \/ token.token_type \notin {"Number", "LabelRef"}
    \/ /\ token.token_type = "Number"
       /\ LiteralValue(token.content) \notin NarrowMin..NarrowMax

ByteUnit(token) ==
    IF token.token_type = "Number"
    THEN Value(Format08b(AsU8(LiteralValue(token.content))))
    ELSE LabelRef(token.content, token.span)

ByteDeclaration ==
    Parsing =>
        \A i \in 1..Len(history) :
            LET stmt == Statement(tokens.val[i])
                values == Tail(stmt)
            IN  (stmt # <<>> /\ stmt[1].token_type = "Byte") =>
                    /\ (\A v \in 1..Len(values) :
                            FitsByte(values[v])
                                \/ values[v].token_type = "LabelRef") =>
                            history[i].ret =
                                Ok([v \in 1..Len(values) |->
                                       ByteUnit(values[v])])
                    /\ (\E v \in 1..Len(values) : NoByteValue(values[v])) =>
                            ~history[i].ret.ok

(***************************************************************************)
(* C26: parse_number gives the signed value of a numeral: an optional "-", *)
(* then 0x, 0b, 0o or no prefix for radix 16, 2, 8 or 10, then digits of   *)
(* the radix.  Every such numeral of a value in [-128, 127] parses to the  *)
(* value; a numeral with a digit that is none of its radix, with a second  *)
(* sign, or of a value outside the range is an error.                      *)
(***************************************************************************)
\* An optional '-', an optional prefix, and one or more digits of the radix.
WellFormedNumeral(str) ==
    LET rest == IF str # <<>> /\ Head(str) = "-" THEN Tail(str) ELSE str
        radix == IF StartsWith(rest, <<"0", "x">>) THEN 16
                 ELSE IF StartsWith(rest, <<"0", "b">>) THEN 2
                 ELSE IF StartsWith(rest, <<"0", "o">>) THEN 8
                 ELSE 10
        digits == IF radix = 10 THEN rest ELSE DropN(rest, 2)
    IN  /\ digits # <<>>
        /\ \A d \in 1..Len(digits) : ToDigit(digits[d], radix) >= 0

ParseNumberSignedValue ==
    pc = "parsed_number" =>
        IF WellFormedNumeral(numeral)
            /\ LiteralValue(numeral) \in I8Min..I8Max
        THEN numeral_result = Ok(LiteralValue(numeral))
        ELSE ~numeral_result.ok /\ ~IsPanic(numeral_result)

(***************************************************************************)
(* C27: a mnemonic written in lower or mixed case is lexed as a Mnemonic   *)
(* token, and a line with it gives exactly the units the line gives with   *)
(* the mnemonic in upper case, whenever that line is accepted.             *)
(***************************************************************************)
\* The upper-case spelling of the mnemonic of a Mnemonic token.
UpperMnemonic(content) ==
    MnemonicWords[CHOOSE k \in 1..Len(MnemonicWords) :
                      FoldText(MnemonicWords[k]) = FoldText(content)]

\* The tokens of the line with its mnemonic in upper case.
InUpperCase(tks) ==
    [j \in 1..Len(tks) |->
        IF tks[j].token_type = "Mnemonic"
        THEN Token("Mnemonic", UpperMnemonic(tks[j].content), tks[j].span)
        ELSE tks[j]]

\* The first word of a source line spells a mnemonic in some case.
SpellsMnemonic(line) ==
    /\ WordsFrom(line, 1) # <<>>
    /\ \E k \in 1..Len(MnemonicWords) :
            FoldText(MnemonicWords[k]) = FoldText(WordsFrom(line, 1)[1].text)

CaseInsensitiveMnemonics ==
    Parsing =>
        /\ \A i \in 1..Len(Lines(source)) :
                SpellsMnemonic(Lines(source)[i]) =>
                    \E t \in 1..Len(tokens.val) :
                        /\ tokens.val[t][1].span.line = i - 1
                        /\ tokens.val[t][1].token_type = "Mnemonic"
        /\ \A i \in 1..Len(history) :
                LET upper == parse_line(EmptyMap, 0, InUpperCase(tokens.val[i]),
                                        config.val).ret
                IN  upper.ok => history[i].ret = upper

(***************************************************************************)
(* C28: tokenize terminates: every iteration of the loop over a line, with *)
(* a match or with an unknown word skipped, leaves a strictly shorter rest *)
(* of the line, and every run reaches the return of tokenize.              *)
(***************************************************************************)
TokenizeTerminates ==
    /\ [][ScanStep => Len(lex_line_ref') < Len(lex_line_ref)]_vars
    /\ [][EndLine => lex_i' = lex_i + 1]_vars
    /\ <>(pc = "lexed")

\* `X  NOP` is finished after three iterations, two of them on unknown words.
TokenizeTerminatesWitness ==
    /\ pc = "lexed"
    /\ source = LexUnknownWide
    /\ lex_i = 1
    /\ lex_line_ref = <<>>
    /\ Len(lex_errors) = 2
    /\ tokens = Err(lex_errors)

(***************************************************************************)
(* C29: every token carries the zero-based index of its source line and    *)
(* the range of its lexeme in the raw line: the range lies within the      *)
(* line, starts and ends on characters that are no whitespace, spells the  *)
(* content of a mnemonic, register, number or byte keyword, and the ranges *)
(* of the tokens of a line are disjoint and increase in token order.       *)
(***************************************************************************)
\* The text of the raw line that the span covers.
Covered(span) ==
    SubSeq(Lines(source)[span.line + 1], span.start + 1, span.end)

TokenSpansAreLexemes ==
    (tokens # None /\ tokens.ok) =>
        \A t \in 1..Len(tokens.val) :
            /\ t > 1 =>
                    tokens.val[t - 1][1].span.line < tokens.val[t][1].span.line
            /\ \A j \in 1..Len(tokens.val[t]) :
                    /\ tokens.val[t][j].span.line = tokens.val[t][1].span.line
                    /\ tokens.val[t][j].span.line
                            \in 0..(Len(Lines(source)) - 1)
                    /\ tokens.val[t][j].span.start < tokens.val[t][j].span.end
                    /\ tokens.val[t][j].span.end
                            <= Len(Lines(source)[tokens.val[t][j].span.line + 1])
                    /\ ~IsWhitespace(Head(Covered(tokens.val[t][j].span)))
                    /\ ~IsWhitespace(Covered(tokens.val[t][j].span)
                                        [Len(Covered(tokens.val[t][j].span))])
                    /\ tokens.val[t][j].token_type
                            \in {"Mnemonic", "Register", "Number", "Byte"} =>
                            Covered(tokens.val[t][j].span)
                                = tokens.val[t][j].content
                    /\ j > 1 =>
                            tokens.val[t][j - 1].span.end
                                <= tokens.val[t][j].span.start

(***************************************************************************)
(* C30: check_semantics checks the lines in source order and stops at the  *)
(* first line that fails: its result is then exactly the error of that     *)
(* line, no later line has been checked and no checked line is returned;   *)
(* when no line fails the result is one checked line per input line, in    *)
(* the same order, each holding its original line and its code.            *)
(***************************************************************************)
\* The result of checking line i of the input on its own.
LineResult(i) == check_line(automaton.val, labels, input_lines[i])

FailingLines == {i \in 1..Len(input_lines) : ~LineResult(i).ok}

FirstFailingLine == CHOOSE i \in FailingLines : \A k \in FailingLines : i <= k

SemanticsFailFast ==
    /\ \A i \in 1..Len(checked_lines) :
            /\ checked_lines[i].line = input_lines[i]
            /\ LineResult(i).ok
            /\ checked_lines[i].code = LineResult(i).val
    /\ pc = "semantics_done" =>
            IF FailingLines # {}
            THEN /\ semantic = LineResult(FirstFailingLine)
                 /\ ~semantic.ok
                 /\ "val" \notin DOMAIN semantic
                 /\ Len(checked_lines) = FirstFailingLine - 1
            ELSE /\ semantic.ok
                 /\ Len(semantic.val) = Len(input_lines)
                 /\ \A i \in 1..Len(input_lines) :
                        /\ semantic.val[i].line = input_lines[i]
                        /\ semantic.val[i].code = LineResult(i).val

\* A line that checks, then two lines that fail with different errors.
SemanticsFailFastWitness ==
    /\ pc = "semantics_done"
    /\ Len(input_lines) = MaxSemanticLines
    /\ FailingLines = {2, 3}
    /\ LineResult(2) # LineResult(3)
    /\ semantic = LineResult(2)
    /\ Len(checked_lines) = 1

=============================================================================
